---- MODULE Spec2Model ----
(***************************************************************************)
(* Collision avoidance (CollisionAvoidance, NegotiateCollision and the     *)
(* boundary / geometry helpers) and motion planning (MotionPlan) of the    *)
(* traffic manager.                                                        *)
(*                                                                         *)
(* Numbers.  The code computes in float/double.  The model computes in     *)
(* integers: every length is in centimetres, every speed in cm/s, every     *)
(* time in milliseconds.  The literal 0.1 (metres) of the code is          *)
(* therefore the integer 10.  Rotations are restricted to the four headings along the *)
(* axes, so forward vectors are exact integer unit vectors and every       *)
(* boundary polygon the model builds is an axis-parallel rectangle.        *)
(***************************************************************************)
EXTENDS Integers, Sequences, FiniteSets, TLC

(***************************************************************************)
(* Constants of carla/trafficmanager/Constants.h (namespace constants),    *)
(* in the units of the model.                                              *)
(***************************************************************************)
BOUNDARY_EXTENSION_MINIMUM == 200
\* 1.35, as a numerator over 100
BOUNDARY_EXTENSION_RATE == 135
\* 0.9848, as a numerator over 10000
COS_10_DEGREES == 9848
LOCKING_DISTANCE_PADDING == 400
MAX_COLLISION_RADIUS == 10000
MAX_LOCKING_EXTENSION == 1000
\* 1.5 s, as a numerator over 10
WALKER_TIME_EXTENSION == 15
\* 1.414, as a numerator over 1000
SQUARE_ROOT_OF_TWO == 1414
VERTICAL_OVERLAP_THRESHOLD == 400
JUNCTION_LOOK_AHEAD == 1000

\* std::numeric_limits<float>::infinity(): larger than every length of the model
Infinity == 100000000

(***************************************************************************)
(* carla::geom: vectors, locations, Math                                   *)
(***************************************************************************)
Vector3D(x, y, z) == [x |-> x, y |-> y, z |-> z]

VAdd(a, b) == Vector3D(a.x + b.x, a.y + b.y, a.z + b.z)

VSub(a, b) == Vector3D(a.x - b.x, a.y - b.y, a.z - b.z)

VScale(a, k) == Vector3D(a.x * k, a.y * k, a.z * k)

Dot(a, b) == a.x * b.x + a.y * b.y + a.z * b.z

SQUARE(a) == a * a

MAX(a, b) == IF a > b THEN a ELSE b

MIN(a, b) == IF a < b THEN a ELSE b

Abs(a) == IF a < 0 THEN -a ELSE a

\* the element of a one-element set: The({e(x) : x \in {v}}) is e(v), and v
\* is evaluated once however often e uses x
The(S) == CHOOSE r \in S : TRUE

DistanceSquared(a, b) == Dot(VSub(a, b), VSub(a, b))

\* floor of the square root, by bisection on [lo, hi]
RECURSIVE SqrtBetween(_, _, _)
SqrtBetween(n, lo, hi) ==
  IF lo >= hi THEN lo
  ELSE The({IF mid * mid <= n THEN SqrtBetween(n, mid, hi)
            ELSE SqrtBetween(n, lo, mid - 1) :
            mid \in {(lo + hi + 1) \div 2}})

Sqrt(n) == The({SqrtBetween(m, 0, 30000) : m \in {n}})

Length(a) == Sqrt(Dot(a, a))

\* cg::Vector3D(-heading.y, heading.x, 0).MakeUnitVector(): a unit heading
\* along an axis gives a unit perpendicular
Perpendicular(heading) == Vector3D(-heading.y, heading.x, 0)

(***************************************************************************)
(* Records of DataStructures.h / SimpleWaypoint.h                          *)
(***************************************************************************)
\* KinematicState; rotation is kept as its forward vector
KinematicState(location, velocity, rotation, physics_enabled) ==
  [location |-> location, velocity |-> velocity, rotation |-> rotation,
   physics_enabled |-> physics_enabled]

StaticAttributes(actor_type, half_length, half_width, speed_limit) ==
  [actor_type |-> actor_type, half_length |-> half_length,
   half_width |-> half_width, speed_limit |-> speed_limit]

SimpleWaypoint(location, forward, junction) ==
  [location |-> location, forward |-> forward, junction |-> junction]

CollisionLock(lead_vehicle_id, initial_lock_distance, distance_to_lead_vehicle) ==
  [lead_vehicle_id |-> lead_vehicle_id,
   initial_lock_distance |-> initial_lock_distance,
   distance_to_lead_vehicle |-> distance_to_lead_vehicle]

GeometryComparison(r2o, o2r, geo, bbox) ==
  [reference_vehicle_to_other_geodesic |-> r2o,
   other_vehicle_to_reference_geodesic |-> o2r,
   inter_geodesic_distance |-> geo,
   inter_bbox_distance |-> bbox]

\* a std::unordered_map as a function on the set of its keys
Contains(map, key) == key \in DOMAIN map

\* insert() leaves an entry that is already there as it is
Insert(map, key, value) ==
  [k \in DOMAIN map \cup {key} |-> IF Contains(map, k) THEN map[k] ELSE value]

Assign(map, key, value) ==
  [k \in DOMAIN map \cup {key} |-> IF k = key THEN value ELSE map[k]]

Erase(map, key) == [k \in DOMAIN map \ {key} |-> map[k]]

EmptyMap == [k \in {} |-> 0]

(***************************************************************************)
(* LocalizationUtils: GetTargetWaypoint(buffer, distance) gives the buffer *)
(* entry at that distance from the front of the buffer, and its index; the *)
(* last entry when the buffer is shorter.  Indices here start at 1.        *)
(***************************************************************************)
RECURSIVE TargetIndexFrom(_, _, _)
TargetIndexFrom(waypoint_buffer, distance, i) ==
  IF i >= Len(waypoint_buffer) THEN Len(waypoint_buffer)
  ELSE IF DistanceSquared(waypoint_buffer[1].location, waypoint_buffer[i].location)
            >= SQUARE(distance)
       THEN i
       ELSE TargetIndexFrom(waypoint_buffer, distance, i + 1)

GetTargetWaypoint(waypoint_buffer, distance) ==
  The({[first |-> waypoint_buffer[index], second |-> index] :
       index \in {TargetIndexFrom(waypoint_buffer, distance, 1)}})

(***************************************************************************)
(* Boundary builder                                                        *)
(***************************************************************************)
\* a variant that keeps the extension of a lock however far the lead has moved
GetBoundingBoxExtentionOfAnyLock(actor_id, kinematic_state, collision_lock_map) ==
  IF Contains(collision_lock_map, actor_id)
  THEN collision_lock_map[actor_id].distance_to_lead_vehicle + LOCKING_DISTANCE_PADDING
  ELSE (BOUNDARY_EXTENSION_RATE * Dot(kinematic_state.velocity, kinematic_state.rotation))
         \div 100
       + BOUNDARY_EXTENSION_MINIMUM

\* lines 211-235
GetBoundingBoxExtention(actor_id, kinematic_state, collision_lock_map) ==
  LET velocity == Dot(kinematic_state.velocity, kinematic_state.rotation)
      bbox_extension == (BOUNDARY_EXTENSION_RATE * velocity) \div 100
                        + BOUNDARY_EXTENSION_MINIMUM
  IN IF Contains(collision_lock_map, actor_id)
     THEN LET lock == collision_lock_map[actor_id]
              lock_boundary_length == lock.distance_to_lead_vehicle
                                      + LOCKING_DISTANCE_PADDING
          IN IF lock_boundary_length - lock.initial_lock_distance < MAX_LOCKING_EXTENSION
             THEN lock_boundary_length
             ELSE bbox_extension
     ELSE bbox_extension

GetBoundary(kinematic_state, attributes) ==
  The({
  LET heading_vector == kinematic_state.rotation
      bbox_x == attributes.half_length
      bbox_y == attributes.half_width
      x_boundary_vector == VScale(heading_vector, bbox_x + forward_extension)
      perpendicular_vector == Perpendicular(heading_vector)
      y_boundary_vector == VScale(perpendicular_vector, bbox_y + forward_extension)
      location == kinematic_state.location
  IN << VAdd(location, VSub(x_boundary_vector, y_boundary_vector)),
        VAdd(location, VSub(VScale(x_boundary_vector, -1), y_boundary_vector)),
        VAdd(location, VAdd(VScale(x_boundary_vector, -1), y_boundary_vector)),
        VAdd(location, VAdd(x_boundary_vector, y_boundary_vector)) >> :
  forward_extension \in
    {IF attributes.actor_type = "Pedestrian"
     THEN (Length(kinematic_state.velocity) * WALKER_TIME_EXTENSION) \div 10
     ELSE 0}})

\* The loop of GetGeodesicBoundary over the buffer.  j is the loop index,
\* current_point the index of the entry the body looks at, boundary_end the
\* index of the entry of the last rib (0 for nullptr).  The result lists the
\* entries looked at and the entries a rib was emitted at, in order.
RECURSIVE BoundaryWalk(_, _, _, _, _, _, _, _)
BoundaryWalk(waypoint_buffer, boundary_start_index, bbox_extension_square, j, current_point, boundary_end, examined, ribs) ==
  IF j > Len(waypoint_buffer) THEN [examined |-> examined, ribs |-> ribs]
  ELSE
    The({The({The({
      IF reached_distance THEN [examined |-> examined1, ribs |-> ribs1]
      ELSE BoundaryWalk(waypoint_buffer, boundary_start_index, bbox_extension_square,
                        j + 1, j, end1, examined1, ribs1) :
      ribs1 \in {IF emit THEN Append(ribs, current_point) ELSE ribs},
      end1 \in {IF emit THEN current_point ELSE boundary_end},
      examined1 \in {Append(examined, current_point)}}) :
      emit \in
        {\/ boundary_end = 0
         \/ 10000 * Dot(waypoint_buffer[boundary_end].forward,
                        waypoint_buffer[current_point].forward) < COS_10_DEGREES
         \/ reached_distance}}) :
      reached_distance \in
        {\/ DistanceSquared(waypoint_buffer[boundary_start_index].location,
                            waypoint_buffer[current_point].location)
              > bbox_extension_square
         \/ j = Len(waypoint_buffer)}})

Reverse(s) == [i \in 1..Len(s) |-> s[Len(s) + 1 - i]]

\* the boundary GetGeodesicBoundary computes when the actor is not in the map
ComputeGeodesicBoundary(actor_id, kinematic_state, attributes, waypoint_buffer, specific_lead_distance, collision_lock_map) ==
  LET bbox == GetBoundary(kinematic_state, attributes)
  IN IF attributes.actor_type = "Vehicle"
     THEN
       The({The({
       LET width == attributes.half_width
           scaled_perpendicular(i) ==
             VScale(Perpendicular(waypoint_buffer[i].forward), width)
           left_boundary ==
             [k \in 1..Len(walk.ribs) |->
                VAdd(waypoint_buffer[walk.ribs[k]].location,
                     scaled_perpendicular(walk.ribs[k]))]
           right_boundary ==
             [k \in 1..Len(walk.ribs) |->
                VAdd(waypoint_buffer[walk.ribs[k]].location,
                     VScale(scaled_perpendicular(walk.ribs[k]), -1))]
       IN Reverse(right_boundary) \o bbox \o left_boundary :
       walk \in {BoundaryWalk(waypoint_buffer, boundary_start_index,
                              bbox_extension_square, boundary_start_index,
                              boundary_start_index, 0, << >>, << >>)}}) :
       bbox_extension_square \in
         {SQUARE(The({MAX(specific_lead_distance, extension) :
                      extension \in {GetBoundingBoxExtention(actor_id, kinematic_state,
                                                             collision_lock_map)}}))},
       boundary_start_index \in
         {GetTargetWaypoint(waypoint_buffer, attributes.half_length).second}})
     ELSE bbox

\* a variant that computes the boundary at every request
GetGeodesicBoundaryAfresh(actor_id, geodesic_boundary_map, kinematic_state, attributes, waypoint_buffer, specific_lead_distance, collision_lock_map) ==
  The({[boundary |-> geodesic_boundary,
        geodesic_boundary_map |->
          Assign(geodesic_boundary_map, actor_id, geodesic_boundary)] :
       geodesic_boundary \in
         {ComputeGeodesicBoundary(actor_id, kinematic_state, attributes,
                                  waypoint_buffer, specific_lead_distance,
                                  collision_lock_map)}})

\* lines 267-350
GetGeodesicBoundary(actor_id, geodesic_boundary_map, kinematic_state, attributes, waypoint_buffer, specific_lead_distance, collision_lock_map) ==
  IF Contains(geodesic_boundary_map, actor_id)
  THEN [boundary |-> geodesic_boundary_map[actor_id],
        geodesic_boundary_map |-> geodesic_boundary_map]
  ELSE The({[boundary |-> geodesic_boundary,
             geodesic_boundary_map |->
               Insert(geodesic_boundary_map, actor_id, geodesic_boundary)] :
            geodesic_boundary \in
              {ComputeGeodesicBoundary(actor_id, kinematic_state, attributes,
                                       waypoint_buffer, specific_lead_distance,
                                       collision_lock_map)}})

GetPolygon(boundary) == Append(boundary, boundary[1])

(***************************************************************************)
(* boost::geometry::distance of two polygons: 0 when they touch or         *)
(* overlap, else the least distance of their rings.  Every ring of the     *)
(* model is an axis-parallel rectangle, so the distance is the distance of *)
(* the two extents (rounded down to the centimetre).                        *)
(***************************************************************************)
SetMin(S) == CHOOSE m \in S : \A n \in S : m <= n

SetMax(S) == CHOOSE m \in S : \A n \in S : m >= n

Extent(polygon) ==
  The({[xmin |-> SetMin(xs), xmax |-> SetMax(xs),
        ymin |-> SetMin(ys), ymax |-> SetMax(ys)] :
       xs \in {{polygon[i].x : i \in 1..Len(polygon)}},
       ys \in {{polygon[i].y : i \in 1..Len(polygon)}}})

PolygonDistance(p, q) ==
  The({The({IF dx = 0 THEN dy ELSE IF dy = 0 THEN dx ELSE Sqrt(dx * dx + dy * dy) :
            dx \in {MAX(0, MAX(a.xmin - b.xmax, b.xmin - a.xmax))},
            dy \in {MAX(0, MAX(a.ymin - b.ymax, b.ymin - a.ymax))}}) :
       a \in {Extent(p)}, b \in {Extent(q)}})

(***************************************************************************)
(* Geometry cache.  The key std::to_string(a) + "|" + std::to_string(b) is *)
(* the pair <<a, b>>.                                                      *)
(***************************************************************************)
ActorIdKey(reference_vehicle_id, other_actor_id) ==
  IF reference_vehicle_id < other_actor_id
  THEN << reference_vehicle_id, other_actor_id >>
  ELSE << other_actor_id, other_actor_id >>

\* the comparison of the code's else branch, with the geodesic map it leaves
ComputeGeometry(geodesic_boundary_map, reference_vehicle_id, other_actor_id, state_map, attribute_map, buffer_map, collision_lock_map, reference_lead_distance, other_lead_distance) ==
  The({The({The({
    [comparison |->
       GeometryComparison(PolygonDistance(reference_polygon, other_geodesic_polygon),
                          PolygonDistance(other_polygon, reference_geodesic_polygon),
                          PolygonDistance(reference_geodesic_polygon,
                                          other_geodesic_polygon),
                          PolygonDistance(reference_polygon, other_polygon)),
     geodesic_boundary_map |-> other_geodesic.geodesic_boundary_map] :
    reference_geodesic_polygon \in {GetPolygon(reference_geodesic.boundary)},
    other_geodesic_polygon \in {GetPolygon(other_geodesic.boundary)}}) :
    other_geodesic \in
      {GetGeodesicBoundary(other_actor_id, reference_geodesic.geodesic_boundary_map,
                           state_map[other_actor_id], attribute_map[other_actor_id],
                           buffer_map[other_actor_id],
                           other_lead_distance, collision_lock_map)}}) :
    reference_polygon \in
      {GetPolygon(GetBoundary(state_map[reference_vehicle_id],
                              attribute_map[reference_vehicle_id]))},
    other_polygon \in
      {GetPolygon(GetBoundary(state_map[other_actor_id],
                              attribute_map[other_actor_id]))},
    reference_geodesic \in
      {GetGeodesicBoundary(reference_vehicle_id, geodesic_boundary_map,
                           state_map[reference_vehicle_id],
                           attribute_map[reference_vehicle_id],
                           buffer_map[reference_vehicle_id],
                           reference_lead_distance, collision_lock_map)}})

GetGeometryBetweenActors(geometry_cache, geodesic_boundary_map, reference_vehicle_id, other_actor_id, state_map, attribute_map, buffer_map, collision_lock_map, reference_lead_distance, other_lead_distance) ==
  LET actor_id_key == ActorIdKey(reference_vehicle_id, other_actor_id)
  IN IF Contains(geometry_cache, actor_id_key)
     THEN LET mCache == geometry_cache[actor_id_key]
          IN [comparison |->
                GeometryComparison(mCache.other_vehicle_to_reference_geodesic,
                                   mCache.reference_vehicle_to_other_geodesic,
                                   mCache.inter_geodesic_distance,
                                   mCache.inter_bbox_distance),
              geometry_cache |-> geometry_cache,
              geodesic_boundary_map |-> geodesic_boundary_map]
     ELSE The({[comparison |-> fresh.comparison,
                geometry_cache |->
                  Insert(geometry_cache, actor_id_key, fresh.comparison),
                geodesic_boundary_map |-> fresh.geodesic_boundary_map] :
               fresh \in
                 {ComputeGeometry(geodesic_boundary_map, reference_vehicle_id,
                                  other_actor_id, state_map, attribute_map,
                                  buffer_map, collision_lock_map,
                                  reference_lead_distance, other_lead_distance)}})

(***************************************************************************)
(* Collision negotiator                                                    *)
(***************************************************************************)
\* The code divides reference_to_other and other_to_reference by their
\* length when it exceeds 2 * epsilon.  The two lengths are equal, so the
\* sign of a dot product with one of them, and the order of two such dot
\* products, are those of the vectors before the division.
OtherVehicleInFront(reference_vehicle_state, other_vehicle_state) ==
  LET reference_heading == reference_vehicle_state.rotation
      reference_to_other == VSub(other_vehicle_state.location,
                                 reference_vehicle_state.location)
  IN Dot(reference_heading, reference_to_other) > 0

EgoAngularPriority(reference_vehicle_state, other_vehicle_state) ==
  LET reference_heading == reference_vehicle_state.rotation
      reference_to_other == VSub(other_vehicle_state.location,
                                 reference_vehicle_state.location)
      \* line 463 takes the heading of the reference vehicle
      other_heading == reference_vehicle_state.rotation
      other_to_reference == VSub(reference_vehicle_state.location,
                                 other_vehicle_state.location)
  IN Dot(reference_heading, reference_to_other) < Dot(other_heading, other_to_reference)

\* a variant that takes only a red light for a stop
EgoStoppedAtRedLightOnly(reference_tl_state, reference_vehicle_buffer, reference_junction_look_ahead_index) ==
  LET closest_point == reference_vehicle_buffer[1]
      look_ahead_point == reference_vehicle_buffer[reference_junction_look_ahead_index]
      ego_at_junction_entrance == ~closest_point.junction /\ look_ahead_point.junction
  IN /\ ego_at_junction_entrance
     /\ reference_tl_state.at_traffic_light
     /\ reference_tl_state.tl_state = "Red"

\* lines 489-495 and the first operand of line 497: the ego waits for its
\* light at the entrance of a junction
EgoStoppedAtJunctionEntrance(reference_tl_state, reference_vehicle_buffer, reference_junction_look_ahead_index) ==
  LET closest_point == reference_vehicle_buffer[1]
      ego_at_traffic_light == reference_tl_state.at_traffic_light
      ego_stopped_by_light == reference_tl_state.tl_state /= "Green"
      look_ahead_point == reference_vehicle_buffer[reference_junction_look_ahead_index]
      ego_at_junction_entrance == ~closest_point.junction /\ look_ahead_point.junction
  IN ego_at_junction_entrance /\ ego_at_traffic_light /\ ego_stopped_by_light

\* a variant that asks for the other actor in front of the ego inside a
\* junction too
NegotiationGateFrontOnly(reference_vehicle_id, other_actor_id, collision_locks, reference_vehicle_state, other_vehicle_state, reference_vehicle_attributes, other_vehicle_attributes, reference_tl_state, reference_vehicle_buffer, reference_junction_look_ahead_index) ==
  LET inter_vehicle_length ==
        (reference_vehicle_attributes.half_length * SQUARE_ROOT_OF_TWO) \div 1000
        + (other_vehicle_attributes.half_length * SQUARE_ROOT_OF_TWO) \div 1000
      inter_vehicle_distance == DistanceSquared(reference_vehicle_state.location,
                                                other_vehicle_state.location)
      ego_bounding_box_extension ==
        GetBoundingBoxExtention(reference_vehicle_id, reference_vehicle_state,
                                collision_locks)
      other_bounding_box_extension ==
        GetBoundingBoxExtention(other_actor_id, other_vehicle_state, collision_locks)
      ego_inside_junction == reference_vehicle_buffer[1].junction
  IN /\ ~EgoStoppedAtJunctionEntrance(reference_tl_state, reference_vehicle_buffer,
                                      reference_junction_look_ahead_index)
     /\ OtherVehicleInFront(reference_vehicle_state, other_vehicle_state)
     /\ inter_vehicle_distance
          < SQUARE(ego_bounding_box_extension + inter_vehicle_length
                   + (IF ego_inside_junction THEN other_bounding_box_extension ELSE 0))

\* the condition of line 497 under which the geometry is compared
NegotiationGate(reference_vehicle_id, other_actor_id, collision_locks, reference_vehicle_state, other_vehicle_state, reference_vehicle_attributes, other_vehicle_attributes, reference_tl_state, reference_vehicle_buffer, reference_junction_look_ahead_index) ==
  LET reference_vehicle_length ==
        (reference_vehicle_attributes.half_length * SQUARE_ROOT_OF_TWO) \div 1000
      other_vehicle_length ==
        (other_vehicle_attributes.half_length * SQUARE_ROOT_OF_TWO) \div 1000
      inter_vehicle_distance == DistanceSquared(reference_vehicle_state.location,
                                                other_vehicle_state.location)
      ego_bounding_box_extension ==
        GetBoundingBoxExtention(reference_vehicle_id, reference_vehicle_state,
                                collision_locks)
      other_bounding_box_extension ==
        GetBoundingBoxExtention(other_actor_id, other_vehicle_state, collision_locks)
      inter_vehicle_length == reference_vehicle_length + other_vehicle_length
      ego_detection_range == SQUARE(ego_bounding_box_extension + inter_vehicle_length)
      cross_detection_range == SQUARE(ego_bounding_box_extension + inter_vehicle_length
                                      + other_bounding_box_extension)
      other_vehicle_in_ego_range == inter_vehicle_distance < ego_detection_range
      other_vehicles_in_cross_detection_range ==
        inter_vehicle_distance < cross_detection_range
      other_vehicle_in_front == OtherVehicleInFront(reference_vehicle_state,
                                                    other_vehicle_state)
      closest_point == reference_vehicle_buffer[1]
      ego_inside_junction == closest_point.junction
  IN /\ ~EgoStoppedAtJunctionEntrance(reference_tl_state, reference_vehicle_buffer,
                                      reference_junction_look_ahead_index)
     /\ \/ (ego_inside_junction /\ other_vehicles_in_cross_detection_range)
        \/ (~ego_inside_junction /\ other_vehicle_in_front /\ other_vehicle_in_ego_range)

\* a variant that takes every touching of the two paths for a hazard
HazardRuleWithoutPriority(geometry_comparison, ego_angular_priority) ==
  geometry_comparison.inter_geodesic_distance < 10

\* the condition of lines 526-529 on a comparison
HazardRule(geometry_comparison, ego_angular_priority) ==
  LET geodesic_path_bbox_touching == geometry_comparison.inter_geodesic_distance < 10
      vehicle_bbox_touching == geometry_comparison.inter_bbox_distance < 10
      ego_path_clear == geometry_comparison.other_vehicle_to_reference_geodesic > 10
      other_path_clear == geometry_comparison.reference_vehicle_to_other_geodesic > 10
      ego_path_priority == geometry_comparison.reference_vehicle_to_other_geodesic
                           < geometry_comparison.other_vehicle_to_reference_geodesic
  IN /\ geodesic_path_bbox_touching
     /\ \/ /\ ~vehicle_bbox_touching
           /\ \/ ~ego_path_clear
              \/ (ego_path_clear /\ other_path_clear
                  /\ ~ego_angular_priority /\ ~ego_path_priority)
        \/ (vehicle_bbox_touching /\ ~ego_angular_priority /\ ~ego_path_priority)

\* a variant without the lower clamp of line 535
DistanceMarginUnclamped(geometry_comparison, reference_lead_distance) ==
  LET specific_distance_margin == MAX(reference_lead_distance, BOUNDARY_EXTENSION_MINIMUM)
  IN geometry_comparison.reference_vehicle_to_other_geodesic - specific_distance_margin

\* lines 533-535
DistanceMargin(geometry_comparison, reference_lead_distance) ==
  LET specific_distance_margin == MAX(reference_lead_distance, BOUNDARY_EXTENSION_MINIMUM)
  IN MAX(geometry_comparison.reference_vehicle_to_other_geodesic
         - specific_distance_margin, 0)

\* a variant that starts a new lock on every hazard
LockOnHazardReinitialise(collision_locks, reference_vehicle_id, other_actor_id, geometry_comparison) ==
  Assign(collision_locks, reference_vehicle_id,
         CollisionLock(other_actor_id,
                       geometry_comparison.inter_bbox_distance,
                       geometry_comparison.inter_bbox_distance))

\* a variant that also locks the other actor on the reference vehicle
LockOnHazardLockOther(collision_locks, reference_vehicle_id, other_actor_id, geometry_comparison) ==
  LET mutual == Assign(collision_locks, other_actor_id,
                       CollisionLock(reference_vehicle_id,
                                     geometry_comparison.inter_bbox_distance,
                                     geometry_comparison.inter_bbox_distance))
  IN IF Contains(collision_locks, reference_vehicle_id)
     THEN LET lock == collision_locks[reference_vehicle_id]
          IN IF other_actor_id = lock.lead_vehicle_id
             THEN IF geometry_comparison.other_vehicle_to_reference_geodesic < 10
                  THEN Assign(mutual, reference_vehicle_id,
                              [lock EXCEPT !.distance_to_lead_vehicle =
                                 geometry_comparison.inter_bbox_distance])
                  ELSE Assign(mutual, reference_vehicle_id,
                              [lock EXCEPT !.distance_to_lead_vehicle =
                                 geometry_comparison.reference_vehicle_to_other_geodesic])
             ELSE Assign(mutual, reference_vehicle_id,
                         CollisionLock(other_actor_id,
                                       geometry_comparison.inter_bbox_distance,
                                       geometry_comparison.inter_bbox_distance))
     ELSE Insert(mutual, reference_vehicle_id,
                 CollisionLock(other_actor_id,
                               geometry_comparison.inter_bbox_distance,
                               geometry_comparison.inter_bbox_distance))

\* a variant that never replaces the lead of an existing lock
LockOnHazardKeepLead(collision_locks, reference_vehicle_id, other_actor_id, geometry_comparison) ==
  IF Contains(collision_locks, reference_vehicle_id)
  THEN LET lock == collision_locks[reference_vehicle_id]
       IN IF geometry_comparison.other_vehicle_to_reference_geodesic < 10
          THEN Assign(collision_locks, reference_vehicle_id,
                      [lock EXCEPT !.distance_to_lead_vehicle =
                         geometry_comparison.inter_bbox_distance])
          ELSE Assign(collision_locks, reference_vehicle_id,
                      [lock EXCEPT !.distance_to_lead_vehicle =
                         geometry_comparison.reference_vehicle_to_other_geodesic])
  ELSE Insert(collision_locks, reference_vehicle_id,
              CollisionLock(other_actor_id,
                            geometry_comparison.inter_bbox_distance,
                            geometry_comparison.inter_bbox_distance))

\* a variant that starts a lock from the distance to the path of the other
\* actor
LockOnHazardFromPath(collision_locks, reference_vehicle_id, other_actor_id, geometry_comparison) ==
  IF /\ Contains(collision_locks, reference_vehicle_id)
     /\ other_actor_id = collision_locks[reference_vehicle_id].lead_vehicle_id
  THEN Assign(collision_locks, reference_vehicle_id,
              [collision_locks[reference_vehicle_id] EXCEPT !.distance_to_lead_vehicle =
                 IF geometry_comparison.other_vehicle_to_reference_geodesic < 10
                 THEN geometry_comparison.inter_bbox_distance
                 ELSE geometry_comparison.reference_vehicle_to_other_geodesic])
  ELSE Assign(collision_locks, reference_vehicle_id,
              CollisionLock(other_actor_id,
                            geometry_comparison.inter_bbox_distance,
                            geometry_comparison.reference_vehicle_to_other_geodesic))

\* the collision locking mechanism of lines 543-565, on a hazard
LockOnHazard(collision_locks, reference_vehicle_id, other_actor_id, geometry_comparison) ==
  IF Contains(collision_locks, reference_vehicle_id)
  THEN LET lock == collision_locks[reference_vehicle_id]
       IN IF other_actor_id = lock.lead_vehicle_id
          THEN IF geometry_comparison.other_vehicle_to_reference_geodesic < 10
               THEN Assign(collision_locks, reference_vehicle_id,
                           [lock EXCEPT !.distance_to_lead_vehicle =
                              geometry_comparison.inter_bbox_distance])
               ELSE Assign(collision_locks, reference_vehicle_id,
                           [lock EXCEPT !.distance_to_lead_vehicle =
                              geometry_comparison.reference_vehicle_to_other_geodesic])
          ELSE Assign(collision_locks, reference_vehicle_id,
                      CollisionLock(other_actor_id,
                                    geometry_comparison.inter_bbox_distance,
                                    geometry_comparison.inter_bbox_distance))
  ELSE Insert(collision_locks, reference_vehicle_id,
              CollisionLock(other_actor_id,
                            geometry_comparison.inter_bbox_distance,
                            geometry_comparison.inter_bbox_distance))

\* a variant that flushes the locks of all vehicles
LockOnNoHazardFlushAll(collision_locks, reference_vehicle_id) == EmptyMap

\* lines 569-572
LockOnNoHazard(collision_locks, reference_vehicle_id) ==
  IF Contains(collision_locks, reference_vehicle_id)
  THEN Erase(collision_locks, reference_vehicle_id)
  ELSE collision_locks

\* first, second: the pair the code returns; the other fields: the three
\* maps the code changes through its reference parameters
NegotiateCollision(reference_vehicle_id, other_actor_id, geometry_cache, geodesic_boundary_map, collision_locks, state_map, attribute_map, reference_tl_state, buffer_map, reference_junction_look_ahead_index, reference_lead_distance, other_lead_distance) ==
  The({The({The({
  LET geometry_comparison == geometry.comparison
  IN [first |-> hazard,
      second |-> IF hazard THEN DistanceMargin(geometry_comparison,
                                               reference_lead_distance)
                 ELSE Infinity,
      gate |-> gate,
      comparison |-> IF gate THEN geometry_comparison
                     ELSE GeometryComparison(-1, -1, -1, -1),
      geometry_cache |-> IF gate THEN geometry.geometry_cache ELSE geometry_cache,
      geodesic_boundary_map |-> IF gate THEN geometry.geodesic_boundary_map
                                ELSE geodesic_boundary_map,
      collision_locks |->
        IF hazard THEN LockOnHazard(collision_locks, reference_vehicle_id,
                                    other_actor_id, geometry_comparison)
        ELSE LockOnNoHazard(collision_locks, reference_vehicle_id)] :
  hazard \in
    {gate /\ HazardRule(geometry.comparison,
                        EgoAngularPriority(state_map[reference_vehicle_id],
                                           state_map[other_actor_id]))}}) :
  \* the geometry is compared only behind the gate
  geometry \in
    {IF gate
     THEN GetGeometryBetweenActors(geometry_cache, geodesic_boundary_map,
                                   reference_vehicle_id, other_actor_id,
                                   state_map, attribute_map, buffer_map,
                                   collision_locks, reference_lead_distance,
                                   other_lead_distance)
     ELSE [comparison |-> GeometryComparison(-1, -1, -1, -1),
           geometry_cache |-> geometry_cache,
           geodesic_boundary_map |-> geodesic_boundary_map]}}) :
  gate \in
    {NegotiationGate(reference_vehicle_id, other_actor_id, collision_locks,
                     state_map[reference_vehicle_id], state_map[other_actor_id],
                     attribute_map[reference_vehicle_id],
                     attribute_map[other_actor_id],
                     reference_tl_state, buffer_map[reference_vehicle_id],
                     reference_junction_look_ahead_index)}})

(***************************************************************************)
(* Collision avoidance driver                                              *)
(***************************************************************************)
CollisionHazardData(hazard, hazard_actor_id, available_distance_margin) ==
  [hazard |-> hazard, hazard_actor_id |-> hazard_actor_id,
   available_distance_margin |-> available_distance_margin]

\* lines 134-144: the overlapping actors within the collision radius and the
\* vertical overlap range
CollisionCandidates(ego_actor_id, ego_location, overlapping_actors, state_map) ==
  {overlapping_actor_id \in overlapping_actors :
     /\ overlapping_actor_id /= ego_actor_id
     /\ DistanceSquared(state_map[overlapping_actor_id].location, ego_location)
          < SQUARE(MAX_COLLISION_RADIUS)
     /\ Abs(ego_location.z - state_map[overlapping_actor_id].location.z)
          < VERTICAL_OVERLAP_THRESHOLD}

\* a variant that orders the candidates by their id
RECURSIVE SortById(_, _, _)
SortById(ids, ego_location, state_map) ==
  IF ids = {} THEN << >>
  ELSE The({<< least >> \o SortById(ids \ {least}, ego_location, state_map) :
            least \in {CHOOSE a \in ids : \A b \in ids : a <= b}})

\* lines 147-153: ascending distance to the ego; std::sort leaves the order
\* of candidates at equal distance open, the model takes the smaller id first
RECURSIVE SortByDistance(_, _, _)
SortByDistance(ids, ego_location, state_map) ==
  IF ids = {} THEN << >>
  ELSE LET d(a) == DistanceSquared(ego_location, state_map[a].location)
       IN The({<< nearest >> \o SortByDistance(ids \ {nearest}, ego_location, state_map) :
               nearest \in {CHOOSE a \in ids :
                              \A b \in ids : d(a) < d(b) \/ (d(a) = d(b) /\ a <= b)}})

\* lines 190-193, for a candidate NegotiateCollision found to be a hazard;
\* draw is the value of rand() % 101
CommitHazard(other_actor_type, ego_actor_id, parameters, draw) ==
  \/ (other_actor_type = "Vehicle"
      /\ parameters.percentage_ignore_vehicles[ego_actor_id] <= draw)
  \/ (other_actor_type = "Pedestrian"
      /\ parameters.percentage_ignore_walkers[ego_actor_id] <= draw)

\* lines 158-201: the loop over the sorted candidates from position i on.
\* st holds the locals of CollisionAvoidance and the lock map; st.calls lists
\* the calls of NegotiateCollision made so far.
RECURSIVE CandidateLoop(_, _, _, _, _, _, _, _, _, _, _, _)
CandidateLoop(collision_candidate_ids, i, st, ego_actor_id, state_map, attribute_map, tl_state_map, buffer_map, parameters, look_ahead_index, reference_lead_distance, rand) ==
  IF i > Len(collision_candidate_ids) \/ st.collision_hazard THEN st
  ELSE
    LET other_actor_id == collision_candidate_ids[i]
    IN IF ~Contains(attribute_map, other_actor_id)
       THEN [st EXCEPT !.thrown = TRUE]
       ELSE
         IF /\ parameters.collision_detection[ego_actor_id][other_actor_id]
            /\ Contains(tl_state_map, ego_actor_id)
            /\ Contains(buffer_map, ego_actor_id)
            /\ Contains(buffer_map, other_actor_id)
         THEN
           The({The({
             CandidateLoop(collision_candidate_ids, i + 1, st1, ego_actor_id,
                           state_map, attribute_map, tl_state_map, buffer_map,
                           parameters, look_ahead_index, reference_lead_distance, rand) :
             st1 \in
               {LET commit ==
                      /\ negotiation_result.first
                      /\ CommitHazard(attribute_map[other_actor_id].actor_type,
                                      ego_actor_id, parameters, rand[other_actor_id])
                IN [st EXCEPT
                      !.collision_hazard = commit,
                      !.obstacle_id = IF commit THEN other_actor_id ELSE @,
                      !.available_distance_margin =
                         IF commit THEN negotiation_result.second ELSE @,
                      !.geometry_cache = negotiation_result.geometry_cache,
                      !.geodesic_boundary_map =
                         negotiation_result.geodesic_boundary_map,
                      !.collision_locks = negotiation_result.collision_locks,
                      !.calls = Append(@,
                         [other |-> other_actor_id,
                          first |-> negotiation_result.first,
                          second |-> negotiation_result.second,
                          gate |-> negotiation_result.gate,
                          comparison |-> negotiation_result.comparison,
                          locks_before |-> st.collision_locks,
                          locks_after |-> negotiation_result.collision_locks,
                          cache_before |-> st.geometry_cache,
                          cache_after |-> negotiation_result.geometry_cache,
                          boundaries_before |-> st.geodesic_boundary_map,
                          boundaries_after |-> negotiation_result.geodesic_boundary_map,
                          committed |-> commit])]}}) :
             negotiation_result \in
               {NegotiateCollision(ego_actor_id, other_actor_id, st.geometry_cache,
                                   st.geodesic_boundary_map, st.collision_locks,
                                   state_map, attribute_map, tl_state_map[ego_actor_id],
                                   buffer_map, look_ahead_index, reference_lead_distance,
                                   parameters.distance_to_leading_vehicle[other_actor_id])}})
         ELSE CandidateLoop(collision_candidate_ids, i + 1, st, ego_actor_id,
                            state_map, attribute_map, tl_state_map, buffer_map,
                            parameters, look_ahead_index, reference_lead_distance, rand)

\* a variant whose hazard flag starts set
InitialLocalsHazardSet(collision_locks) ==
  [collision_hazard |-> TRUE, obstacle_id |-> 0,
   available_distance_margin |-> Infinity,
   geometry_cache |-> EmptyMap, geodesic_boundary_map |-> EmptyMap,
   collision_locks |-> collision_locks, thrown |-> FALSE, calls |-> << >>]

\* the locals of CollisionAvoidance at lines 112-117
InitialLocals(collision_locks) ==
  [collision_hazard |-> FALSE, obstacle_id |-> 0,
   available_distance_margin |-> Infinity,
   geometry_cache |-> EmptyMap, geodesic_boundary_map |-> EmptyMap,
   collision_locks |-> collision_locks, thrown |-> FALSE, calls |-> << >>]

\* CollisionAvoidance for the ego at position index of vehicle_id_list.
\* rand[other] is the value rand() % 101 gives when `other` is judged.
\* The result: the lock map and the output element after the call, whether
\* the call ended by an exception (std::out_of_range of at()), and the calls
\* of NegotiateCollision it made.
CollisionAvoidance(index, vehicle_id_list, state_map, attribute_map, tl_state_map, buffer_map, track_traffic, parameters, collision_locks, output_element, rand) ==
  LET ego_actor_id == vehicle_id_list[index]
      st0 == InitialLocals(collision_locks)
  IN The({[collision_locks |-> st.collision_locks,
           output_element |->
             IF st.thrown THEN output_element
             ELSE CollisionHazardData(st.collision_hazard, st.obstacle_id,
                                      st.available_distance_margin),
           thrown |-> st.thrown,
           calls |-> st.calls] :
     st \in
       {IF Contains(state_map, ego_actor_id) /\ Contains(attribute_map, ego_actor_id)
        THEN
          IF ~Contains(buffer_map, ego_actor_id)
          THEN [st0 EXCEPT !.thrown = TRUE]
          ELSE
            LET ego_location == state_map[ego_actor_id].location
                ego_buffer == buffer_map[ego_actor_id]
                overlapping_actors == track_traffic[ego_actor_id]
            IN IF \E a \in overlapping_actors : ~Contains(state_map, a)
               THEN [st0 EXCEPT !.thrown = TRUE]
               ELSE
                 The({CandidateLoop(collision_candidate_ids, 1, st0, ego_actor_id,
                                    state_map, attribute_map, tl_state_map, buffer_map,
                                    parameters, look_ahead_index,
                                    reference_lead_distance, rand) :
                      look_ahead_index \in
                        {GetTargetWaypoint(ego_buffer, JUNCTION_LOOK_AHEAD).second},
                      collision_candidate_ids \in
                        {SortByDistance(CollisionCandidates(ego_actor_id, ego_location,
                                                            overlapping_actors,
                                                            state_map),
                                        ego_location, state_map)},
                      reference_lead_distance \in
                        {parameters.distance_to_leading_vehicle[ego_actor_id]}})
        ELSE st0}})

(***************************************************************************)
(* Motion planner (MotionPlan.h).  Velocities in cm/s, time in ms,         *)
(* throttle, brake, steer and the lateral deviation in thousandths.        *)
(* Constants of Constants.h (namespaces MotionPlan, WaypointSelection,     *)
(* SpeedThreshold, HybridMode).                                            *)
(***************************************************************************)
HIGHWAY_SPEED == 1388                   \* 50 / 3.6 m/s

TARGET_WAYPOINT_TIME_HORIZON == 500     \* 0.5 s

TARGET_WAYPOINT_HORIZON_LENGTH == 250   \* 2.5 m

EPSILON_RELATIVE_SPEED == 0             \* 0.001 m/s: below the unit of 1 cm/s

FOLLOW_DISTANCE_RATE == 18              \* hundredths: 5 m more at 100 km/h

MIN_FOLLOW_LEAD_DISTANCE == 500         \* 5 m

RELATIVE_APPROACH_SPEED == 277          \* 10 / 3.6 m/s

CRITICAL_BRAKING_MARGIN == 25           \* 0.25 m

HYBRID_MODE_DT == 50                    \* 0.05 s

StateEntry(deviation, velocity, time_instance, deviation_integral, velocity_integral) ==
  [deviation |-> deviation, velocity |-> velocity, time_instance |-> time_instance,
   deviation_integral |-> deviation_integral, velocity_integral |-> velocity_integral]

ActuationSignal(throttle, brake, steer) ==
  [throttle |-> throttle, brake |-> brake, steer |-> steer]

ApplyVehicleControl(actor_id, vehicle_control) ==
  [command |-> "ApplyVehicleControl", actor_id |-> actor_id,
   throttle |-> vehicle_control.throttle, brake |-> vehicle_control.brake,
   steer |-> vehicle_control.steer]

ApplyTransform(actor_id, location, rotation) ==
  [command |-> "ApplyTransform", actor_id |-> actor_id,
   location |-> location, rotation |-> rotation]

\* LocalizationUtils: the cosine of the angle between the heading and the
\* direction to the target, in thousandths
DeviationDotProduct(reference_location, heading_vector, target_location) ==
  LET next_vector == VSub(target_location, reference_location)
  IN IF Length(next_vector) = 0 THEN 0
     ELSE (Dot(heading_vector, next_vector) * 1000) \div Length(next_vector)

\* LocalizationUtils: the z component of heading x direction to the target;
\* only its sign is used
DeviationCrossProduct(reference_location, heading_vector, target_location) ==
  LET next_vector == VSub(target_location, reference_location)
  IN heading_vector.x * next_vector.y - heading_vector.y * next_vector.x

\* lines 54-65
CurrentDeviation(ego_location, ego_heading, ego_speed, waypoint_buffer) ==
  LET target_point_distance ==
        MAX((ego_speed * TARGET_WAYPOINT_TIME_HORIZON) \div 1000,
            TARGET_WAYPOINT_HORIZON_LENGTH)
      target_waypoint == GetTargetWaypoint(waypoint_buffer, target_point_distance).first
      target_location == target_waypoint.location
      dot_product == 1000 - DeviationDotProduct(ego_location, ego_heading, target_location)
      cross_product == DeviationCrossProduct(ego_location, ego_heading, target_location)
  IN IF cross_product < 0 THEN -dot_product ELSE dot_product

\* PIDController.h, PID::StateUpdate: the errors of this step and their
\* integrals over the time since the previous state
StateUpdate(previous_state, current_velocity, target_velocity, angular_deviation, current_time) ==
  LET dt == current_time - previous_state.time_instance
      velocity == current_velocity - target_velocity
  IN StateEntry(angular_deviation, velocity, current_time,
                previous_state.deviation_integral + (angular_deviation * dt) \div 1000,
                previous_state.velocity_integral + (velocity * dt) \div 1000)

Clamp(value, lo, hi) == MAX(lo, MIN(value, hi))

\* PIDController.h, PID::RunStep: a discrete PID on the velocity error gives
\* throttle or brake, one on the deviation gives steer, each saturated
RunStep(present_state, previous_state, longitudinal_parameters, lateral_parameters) ==
  LET dt == present_state.time_instance - previous_state.time_instance
      Derivative(now, before) == IF dt > 0 THEN ((now - before) * 1000) \div dt ELSE 0
      expr_v == longitudinal_parameters[1] * present_state.velocity
                + longitudinal_parameters[2] * present_state.velocity_integral
                + longitudinal_parameters[3]
                  * Derivative(present_state.velocity, previous_state.velocity)
      expr_s == lateral_parameters[1] * present_state.deviation
                + lateral_parameters[2] * present_state.deviation_integral
                + lateral_parameters[3]
                  * Derivative(present_state.deviation, previous_state.deviation)
  IN ActuationSignal(IF expr_v < 0 THEN MIN(-expr_v, 1000) ELSE 0,
                     IF expr_v < 0 THEN 0 ELSE MIN(expr_v, 1000),
                     Clamp(expr_s, -1000, 1000))

\* Parameters::GetVehicleTargetVelocity, in km/h: the speed limit less the
\* percentage configured for the vehicle
GetVehicleTargetVelocity(parameters, actor_id, speed_limit) ==
  (speed_limit * (100 - parameters.percentage_difference_from_speed_limit[actor_id]))
    \div 100

\* line 94: km/h to cm/s
MaxTargetVelocity(parameters, actor_id, speed_limit) ==
  (GetVehicleTargetVelocity(parameters, actor_id, speed_limit) * 1000) \div 36

\* a variant that follows the lead at a margin equal to
\* CRITICAL_BRAKING_MARGIN
CollisionHandlingAtCriticalMargin(collision_hazard, ego_velocity, ego_heading, other_velocity, max_target_velocity) ==
  LET ego_relative_speed == Length(VSub(ego_velocity, other_velocity))
      available_distance_margin == collision_hazard.available_distance_margin
      other_speed_along_heading == Dot(other_velocity, ego_heading)
      follow_lead_distance == (ego_relative_speed * FOLLOW_DISTANCE_RATE) \div 100
                              + MIN_FOLLOW_LEAD_DISTANCE
      closing == ego_relative_speed > EPSILON_RELATIVE_SPEED
  IN IF ~collision_hazard.hazard
     THEN [dynamic_target_velocity |-> max_target_velocity,
           collision_emergency_stop |-> FALSE]
     ELSE [dynamic_target_velocity |->
             IF closing /\ available_distance_margin > follow_lead_distance
             THEN other_speed_along_heading + RELATIVE_APPROACH_SPEED
             ELSE IF closing /\ available_distance_margin >= CRITICAL_BRAKING_MARGIN
                  THEN MAX(other_speed_along_heading, RELATIVE_APPROACH_SPEED)
                  ELSE max_target_velocity,
           collision_emergency_stop |->
             available_distance_margin < CRITICAL_BRAKING_MARGIN]

\* lines 95-138: the target velocity before the clip of line 142, and
\* collision_emergency_stop
CollisionHandling(collision_hazard, ego_velocity, ego_heading, other_velocity, max_target_velocity) ==
  LET ego_relative_speed == Length(VSub(ego_velocity, other_velocity))
      available_distance_margin == collision_hazard.available_distance_margin
      other_speed_along_heading == Dot(other_velocity, ego_heading)
      follow_lead_distance == (ego_relative_speed * FOLLOW_DISTANCE_RATE) \div 100
                              + MIN_FOLLOW_LEAD_DISTANCE
      closing == ego_relative_speed > EPSILON_RELATIVE_SPEED
  IN IF ~collision_hazard.hazard
     THEN [dynamic_target_velocity |-> max_target_velocity,
           collision_emergency_stop |-> FALSE]
     ELSE [dynamic_target_velocity |->
             IF closing /\ available_distance_margin > follow_lead_distance
             THEN other_speed_along_heading + RELATIVE_APPROACH_SPEED
             ELSE IF closing /\ available_distance_margin > CRITICAL_BRAKING_MARGIN
                  THEN MAX(other_speed_along_heading, RELATIVE_APPROACH_SPEED)
                  ELSE max_target_velocity,
           collision_emergency_stop |->
             \/ (/\ closing
                 /\ ~(available_distance_margin > follow_lead_distance)
                 /\ ~(available_distance_margin > CRITICAL_BRAKING_MARGIN))
             \/ available_distance_margin < CRITICAL_BRAKING_MARGIN]

\* a variant without the clip
UnclippedTargetVelocity(max_target_velocity, dynamic_target_velocity) ==
  dynamic_target_velocity

\* line 142
ClipTargetVelocity(max_target_velocity, dynamic_target_velocity) ==
  MIN(max_target_velocity, dynamic_target_velocity)

\* a variant that stops on a collision hazard only
CollisionStopOnly(tl_hazard, collision_emergency_stop) == collision_emergency_stop

\* line 145
EmergencyStop(tl_hazard, collision_emergency_stop) ==
  tl_hazard \/ collision_emergency_stop

\* lines 153-172: the state and the signal of the PID path
ControllerPath(previous_state, ego_speed, dynamic_target_velocity, current_deviation, current_time, longitudinal_parameters, lateral_parameters, emergency_stop) ==
  LET current_state == StateUpdate(previous_state, ego_speed, dynamic_target_velocity,
                                   current_deviation, current_time)
      actuation_signal == RunStep(current_state, previous_state,
                                  longitudinal_parameters, lateral_parameters)
  IN IF emergency_stop
     THEN [current_state |-> [current_state EXCEPT !.deviation_integral = 0,
                                                    !.velocity_integral = 0],
           actuation_signal |-> [actuation_signal EXCEPT !.throttle = 0,
                                                          !.brake = 1000]]
     ELSE [current_state |-> current_state, actuation_signal |-> actuation_signal]

\* lines 190-216: the pose of the teleport path
\* a variant in which the synchronous mode teleports through an emergency stop
TeleportAlwaysInSynchronousMode(kinematic_state, waypoint_buffer, dynamic_target_velocity, emergency_stop, synchronous_mode, elapsed_time) ==
  IF synchronous_mode \/ (~emergency_stop /\ elapsed_time > HYBRID_MODE_DT)
  THEN LET teleport_target_waypoint ==
             GetTargetWaypoint(waypoint_buffer,
                               (dynamic_target_velocity * HYBRID_MODE_DT) \div 1000).first
       IN [location |-> teleport_target_waypoint.location,
           rotation |-> teleport_target_waypoint.forward]
  ELSE [location |-> kinematic_state.location, rotation |-> kinematic_state.rotation]

TeleportationTransform(kinematic_state, waypoint_buffer, dynamic_target_velocity, emergency_stop, synchronous_mode, elapsed_time) ==
  IF ~emergency_stop /\ (synchronous_mode \/ elapsed_time > HYBRID_MODE_DT)
  THEN LET target_displacement == (dynamic_target_velocity * HYBRID_MODE_DT) \div 1000
           teleport_target_waypoint ==
             GetTargetWaypoint(waypoint_buffer, target_displacement).first
           base_displacement == Length(VSub(teleport_target_waypoint.location,
                                            kinematic_state.location))
           missing_displacement ==
             IF base_displacement < target_displacement
             THEN target_displacement - base_displacement ELSE 0
           target_heading == teleport_target_waypoint.forward
       IN [location |-> VAdd(teleport_target_waypoint.location,
                             VScale(target_heading, missing_displacement)),
           rotation |-> teleport_target_waypoint.forward]
  ELSE [location |-> kinematic_state.location, rotation |-> kinematic_state.rotation]

\* what a call of MotionPlan that ended by an exception of at() leaves
Failed(pid_state_map, teleportation_instance, output_array) ==
  [pid_state_map |-> pid_state_map, teleportation_instance |-> teleportation_instance,
   output_array |-> output_array, thrown |-> TRUE,
   max_target_velocity |-> 0, dynamic_target_velocity |-> 0,
   emergency_stop |-> FALSE, elapsed_time |-> 0]

\* MotionPlan for the ego at position index of vehicle_id_list; current_time
\* is the value of chr::system_clock::now() during the call.  The result:
\* the three containers the call writes, whether it ended by an exception
\* (std::out_of_range of at()), and the values of its locals
\* max_target_velocity, dynamic_target_velocity (after line 142),
\* emergency_stop and elapsed_time.
MotionPlan(index, vehicle_id_list, state_map, attribute_map, parameters, buffer_map, urban_longitudinal_parameters, highway_longitudinal_parameters, urban_lateral_parameters, highway_lateral_parameters, collision_frame, tl_frame, pid_state_map, teleportation_instance, output_array, current_time) ==
  LET actor_id == vehicle_id_list[index]
  IN
  IF \/ ~Contains(state_map, actor_id)
     \/ ~Contains(buffer_map, actor_id)
     \/ index \notin DOMAIN collision_frame
     \/ index \notin DOMAIN tl_frame
  THEN Failed(pid_state_map, teleportation_instance, output_array)
  ELSE
    LET kinematic_state == state_map[actor_id]
        ego_location == kinematic_state.location
        ego_velocity == kinematic_state.velocity
        ego_speed == Length(ego_velocity)
        ego_heading == kinematic_state.rotation
        ego_physics_enabled == kinematic_state.physics_enabled
        waypoint_buffer == buffer_map[actor_id]
        collision_hazard == collision_frame[index]
        tl_hazard == tl_frame[index]
        current_deviation == CurrentDeviation(ego_location, ego_heading, ego_speed,
                                              waypoint_buffer)
        \* lines 68-72
        initialised == Insert(pid_state_map, actor_id,
                              StateEntry(0, 0, current_time, 0, 0))
        previous_state == initialised[actor_id]
        highway == ego_speed > HIGHWAY_SPEED
        longitudinal_parameters == IF highway THEN highway_longitudinal_parameters
                                   ELSE urban_longitudinal_parameters
        lateral_parameters == IF highway THEN highway_lateral_parameters
                              ELSE urban_lateral_parameters
    IN
    IF \/ ~Contains(attribute_map, actor_id)
       \/ (collision_hazard.hazard
           /\ ~Contains(state_map, collision_hazard.hazard_actor_id))
    THEN Failed(initialised, teleportation_instance, output_array)
    ELSE
      LET ego_speed_limit == attribute_map[actor_id].speed_limit
          max_target_velocity == MaxTargetVelocity(parameters, actor_id, ego_speed_limit)
          other_velocity == IF collision_hazard.hazard
                            THEN state_map[collision_hazard.hazard_actor_id].velocity
                            ELSE Vector3D(0, 0, 0)
          handling == CollisionHandling(collision_hazard, ego_velocity, ego_heading,
                                        other_velocity, max_target_velocity)
          dynamic_target_velocity ==
            ClipTargetVelocity(max_target_velocity, handling.dynamic_target_velocity)
          emergency_stop == EmergencyStop(tl_hazard, handling.collision_emergency_stop)
          controller == ControllerPath(previous_state, ego_speed, dynamic_target_velocity,
                                       current_deviation, current_time,
                                       longitudinal_parameters, lateral_parameters,
                                       emergency_stop)
          \* lines 182-188
          instants == IF ego_physics_enabled THEN teleportation_instance
                      ELSE Insert(teleportation_instance, actor_id, current_time)
          elapsed_time == IF ego_physics_enabled THEN 0
                          ELSE current_time - instants[actor_id]
          teleportation_transform ==
            TeleportationTransform(kinematic_state, waypoint_buffer,
                                   dynamic_target_velocity, emergency_stop,
                                   parameters.synchronous_mode, elapsed_time)
          current_state == IF ego_physics_enabled THEN controller.current_state
                           ELSE StateEntry(0, 0, current_time, 0, 0)
      IN [pid_state_map |-> Assign(initialised, actor_id, current_state),
          teleportation_instance |-> instants,
          output_array |->
            [output_array EXCEPT ![index] =
               IF ego_physics_enabled
               THEN ApplyVehicleControl(actor_id, controller.actuation_signal)
               ELSE ApplyTransform(actor_id, teleportation_transform.location,
                                   teleportation_transform.rotation)],
          thrown |-> FALSE,
          max_target_velocity |-> max_target_velocity,
          dynamic_target_velocity |-> dynamic_target_velocity,
          emergency_stop |-> emergency_stop,
          elapsed_time |-> elapsed_time]

(***************************************************************************)
(* The world the model runs in.  Actors 1 and 2 are the vehicles of        *)
(* vehicle_id_list, actor 3 is a pedestrian.  A snapshot is built from a   *)
(* scene: where the actors are and how fast, where the junction is, the    *)
(* ego's traffic light, and the parameters.                                *)
(***************************************************************************)
vehicle_id_list == << 1, 2 >>

Indices == 1..Len(vehicle_id_list)

Actors == {1, 2, 3}

\* number of waypoints of a buffer, and their spacing
BufferSize == 8

WaypointSpacing == 250

East == Vector3D(1, 0, 0)

North == Vector3D(0, 1, 0)

South == Vector3D(0, -1, 0)

West == Vector3D(-1, 0, 0)

\* the waypoints of the junction: a box on the lane of actor 1
InJunction(junction, location) ==
  CASE junction = "none" -> FALSE
    [] junction = "entrance" -> location.x >= 1000 /\ location.x <= 2000
    [] junction = "inside" -> location.x >= -500 /\ location.x <= 2000

BufferFrom(location, heading, junction) ==
  [i \in 1..BufferSize |->
     LET at == VAdd(location, VScale(heading, (i - 1) * WaypointSpacing))
     IN SimpleWaypoint(at, heading, InJunction(junction, at))]

\* where actor 2 is, and its heading
Place2(place) ==
  CASE place = "ahead_close" -> [location |-> Vector3D(500, 0, 0), heading |-> East]
    [] place = "ahead_near" -> [location |-> Vector3D(560, 0, 0), heading |-> East]
    [] place = "ahead" -> [location |-> Vector3D(1000, 0, 0), heading |-> East]
    [] place = "ahead_far" -> [location |-> Vector3D(1200, 0, 0), heading |-> East]
    [] place = "behind" -> [location |-> Vector3D(-800, 0, 0), heading |-> East]
    [] place = "cross" -> [location |-> Vector3D(1500, -1000, 0), heading |-> North]
    [] place = "oncoming" -> [location |-> Vector3D(2000, 0, 0), heading |-> West]
    [] place = "above" -> [location |-> Vector3D(600, 0, 500), heading |-> East]
    [] place = "far" -> [location |-> Vector3D(11000, 0, 0), heading |-> East]

\* where the pedestrian is, and its velocity
Place3(place) ==
  CASE place = "near" -> [location |-> Vector3D(900, 250, 0),
                          velocity |-> Vector3D(0, -100, 0)]
    [] place = "away" -> [location |-> Vector3D(900, 11000, 0),
                          velocity |-> Vector3D(0, 0, 0)]

StateMapOf(scene) ==
  LET p2 == Place2(scene.place2)
      p3 == Place3(scene.place3)
  IN [a \in Actors |->
        CASE a = 1 -> KinematicState(Vector3D(0, 0, 0), VScale(East, scene.v1),
                                     East, TRUE)
          [] a = 2 -> KinematicState(p2.location, VScale(p2.heading, scene.v2),
                                     p2.heading, TRUE)
          [] a = 3 -> KinematicState(p3.location, p3.velocity, South, TRUE)]

AttributeMap ==
  [a \in Actors |->
     IF a = 3 THEN StaticAttributes("Pedestrian", 20, 20, 0)
     ELSE StaticAttributes("Vehicle", 230, 100, 30)]

TrafficLightState(tl_state, at_traffic_light) ==
  [tl_state |-> tl_state, at_traffic_light |-> at_traffic_light]

TlStateMapOf(scene) ==
  [a \in {1, 2} |-> IF a = 1 THEN scene.tl1 ELSE TrafficLightState("Green", FALSE)]

BufferMapOf(scene) ==
  LET st == StateMapOf(scene)
  IN [a \in Actors |-> BufferFrom(st[a].location, st[a].rotation, scene.junction)]

\* GetOverlappingVehicles: every other actor
TrackTraffic == [a \in Actors |-> Actors \ {a}]

ParametersOf(scene) ==
  [distance_to_leading_vehicle |-> [a \in Actors |-> 300],
   collision_detection |-> [a \in Actors |-> [b \in Actors |-> scene.detect]],
   percentage_ignore_vehicles |-> [a \in Actors |-> scene.ignore],
   percentage_ignore_walkers |-> [a \in Actors |-> scene.ignore]]

\* the values of rand() % 101 of a tick: one per judged candidate
RandOf(scene) == [a \in Actors |-> scene.draw]

GreenLight == TrafficLightState("Green", FALSE)

\* scenes on a road without junction
RoadScenes ==
  [v1 : {0, 1000}, v2 : {500},
   place2 : {"ahead_close", "ahead_near", "ahead", "ahead_far", "behind", "cross",
             "oncoming", "above", "far"},
   place3 : {"near", "away"}, junction : {"none"}, tl1 : {GreenLight},
   detect : {TRUE}, ignore : {0}, draw : {0}]

\* scenes at and inside a junction, with the ego's traffic light
JunctionScenes ==
  [v1 : {1000}, v2 : {500}, place2 : {"ahead", "cross"}, place3 : {"away"},
   junction : {"entrance", "inside"},
   tl1 : {TrafficLightState("Green", TRUE), TrafficLightState("Red", TRUE),
          TrafficLightState("Yellow", TRUE), TrafficLightState("Red", FALSE)},
   detect : {TRUE}, ignore : {0}, draw : {0}]

\* scenes with collision detection off, or with hazards ignored
ParameterScenes ==
  [v1 : {1000}, v2 : {500}, place2 : {"ahead"}, place3 : {"near", "away"},
   junction : {"none"}, tl1 : {GreenLight},
   detect : BOOLEAN, ignore : {0, 100}, draw : {0, 100}]

Scenes == RoadScenes \cup JunctionScenes \cup ParameterScenes

\* scenes whose snapshot lacks the entry of actor 1 in one of the maps
MissingScenes ==
  [v1 : {1000}, v2 : {500}, place2 : {"ahead", "cross"}, place3 : {"near", "away"},
   junction : {"none"}, tl1 : {GreenLight}, detect : {TRUE}, ignore : {0}, draw : {0},
   missing : {"state", "attributes", "tl", "buffer"}]

\* the keys the map of that name lacks in the snapshot of a scene
Absent(scene, map_name) ==
  IF "missing" \in DOMAIN scene /\ scene.missing = map_name THEN {1} ELSE {}

\* what a run keeps from tick to tick: the map and the parameters; the
\* actors, the traffic light and the draws change
SameRun(s, t) ==
  /\ s.junction = t.junction
  /\ s.detect = t.detect
  /\ s.ignore = t.ignore

(***************************************************************************)
(* The world of the motion planner.  Ego 1 drives east along its buffer,   *)
(* one metre beside it; actor 2 is ten metres ahead.  A situation gives    *)
(* the velocities (along x), whether ego 1 has physics, the mode, the      *)
(* record of ego 1 in the collision frame, its traffic-light hazard, and   *)
(* which entry the snapshot lacks.                                         *)
(***************************************************************************)
MaxTime == 90

TimeSteps == {30, 60}

Margins == {0, 25, 26, 5000}

HazardRecords ==
  {CollisionHazardData(FALSE, 0, Infinity)}
    \cup {CollisionHazardData(TRUE, 2, margin) : margin \in Margins}

DriveSituations ==
  [v1 : {0, 1000, 1500}, v2 : {-500, 500, 1000}, physics : BOOLEAN, sync : BOOLEAN,
   hazard : HazardRecords, tl_hazard : BOOLEAN, missing : {"none"}]

FailureSituations ==
  [v1 : {1000}, v2 : {500}, physics : BOOLEAN, sync : {FALSE},
   hazard : {CollisionHazardData(TRUE, 2, 5000)}, tl_hazard : {FALSE},
   missing : {"state", "buffer", "attributes", "hazard_state"}]

Situations == DriveSituations \cup FailureSituations

Cruise == [v1 |-> 1000, v2 |-> 500, physics |-> TRUE, sync |-> FALSE,
           hazard |-> CollisionHazardData(FALSE, 0, Infinity), tl_hazard |-> FALSE,
           missing |-> "none"]

Without(map, absent) == [k \in DOMAIN map \ absent |-> map[k]]

PlanStateMap(s) ==
  Without([a \in {1, 2} |->
             IF a = 1
             THEN KinematicState(Vector3D(0, 100, 0), Vector3D(s.v1, 0, 0), East, s.physics)
             ELSE KinematicState(Vector3D(1000, 0, 0), Vector3D(s.v2, 0, 0), East, TRUE)],
          IF s.missing = "state" THEN {1}
          ELSE IF s.missing = "hazard_state" THEN {2} ELSE {})

PlanAttributeMap(s) ==
  Without(AttributeMap, IF s.missing = "attributes" THEN {1} ELSE {})

PlanBufferMap(s) ==
  Without([a \in {1, 2} |->
             BufferFrom(Vector3D((a - 1) * 1000, 0, 0), East, "none")],
          IF s.missing = "buffer" THEN {1} ELSE {})

PlanParameters(s) ==
  [percentage_difference_from_speed_limit |-> [a \in Actors |-> 20],
   synchronous_mode |-> s.sync]

PlanCollisionFrame(s) ==
  [i \in Indices |-> IF i = 1 THEN s.hazard ELSE CollisionHazardData(FALSE, 0, Infinity)]

PlanTlFrame(s) == [i \in Indices |-> i = 1 /\ s.tl_hazard]

\* the PID coefficients {kp, ki, kd} the pipeline hands over
urban_longitudinal_parameters == << 2, 1, 0 >>

highway_longitudinal_parameters == << 4, 1, 0 >>

urban_lateral_parameters == << 9, 1, 1 >>

highway_lateral_parameters == << 7, 1, 1 >>

(***************************************************************************)
(* State                                                                   *)
(***************************************************************************)
VARIABLES
  scene,              \* the scene the snapshot of this tick is taken from
  collision_locks,    \* CollisionLockMap
  collision_frame,    \* the output array of CollisionAvoidance
  pending,            \* the positions of vehicle_id_list still to process this tick
  phase_start_locks,  \* collision_locks when the tick began
  last,               \* the last call of CollisionAvoidance
  geometry_cache,         \* GeometryComparisonMap of the call in progress
  geodesic_boundary_map,  \* GeodesicBoundaryMap of the call in progress
  reference,              \* the ego of the call in progress (0: none)
  answer,                 \* the last answer of GetGeometryBetweenActors
  situation,              \* what the snapshot and the frames of the motion planner hold
  pid_state_map,          \* the StateEntry of every ego planned so far
  teleportation_instance, \* the teleport instant of every physics-less ego
  output_array,           \* the control frame
  clock,                  \* chr::system_clock::now(), in ms
  pending_plan,           \* the positions of vehicle_id_list still to plan this tick
  plan,                   \* the last call of MotionPlan
  advances                \* per ego, the instants of its teleports to another pose

ca_vars == << collision_locks, collision_frame, pending, phase_start_locks, last >>

geometry_vars == << geometry_cache, geodesic_boundary_map, reference, answer >>

motion_vars == << situation, pid_state_map, teleportation_instance, output_array,
                  clock, pending_plan, plan, advances >>

vars == << scene, ca_vars, geometry_vars, motion_vars >>

\* the snapshot of the tick: the read-only inputs of the collision stage
state_map == Without(StateMapOf(scene), Absent(scene, "state"))

attribute_map == Without(AttributeMap, Absent(scene, "attributes"))

tl_state_map == Without(TlStateMapOf(scene), Absent(scene, "tl"))

buffer_map == Without(BufferMapOf(scene), Absent(scene, "buffer"))

track_traffic == TrackTraffic

parameters == ParametersOf(scene)

rand == RandOf(scene)

\* the snapshot as one record, built once for a call
Snapshot ==
  [state_map |-> state_map, attribute_map |-> attribute_map,
   tl_state_map |-> tl_state_map, buffer_map |-> buffer_map,
   track_traffic |-> track_traffic, parameters |-> parameters, rand |-> rand]

Ego(index) == vehicle_id_list[index]

EmptyElement == CollisionHazardData(FALSE, 0, Infinity)

NoCall == [index |-> 0, again |-> FALSE, first_locks_before |-> EmptyMap,
           locks_before |-> EmptyMap, locks_after |-> EmptyMap,
           element_before |-> EmptyElement, output_element |-> EmptyElement,
           thrown |-> FALSE, calls |-> << >>]

NoAnswer == [reference_vehicle_id |-> 0, other_actor_id |-> 0,
             comparison |-> GeometryComparison(-1, -1, -1, -1)]

InitCollision ==
  /\ collision_locks = EmptyMap
  /\ collision_frame = [i \in Indices |-> EmptyElement]
  /\ pending = Indices
  /\ phase_start_locks = EmptyMap
  /\ last = NoCall

InitGeometry ==
  /\ geometry_cache = EmptyMap
  /\ geodesic_boundary_map = EmptyMap
  /\ reference = 0
  /\ answer = NoAnswer

NoCommand == [command |-> "None"]

NoPlan == [index |-> 0, thrown |-> FALSE, pid_before |-> EmptyMap,
           instants_before |-> EmptyMap, output_before |-> << >>,
           max_target_velocity |-> 0, dynamic_target_velocity |-> 0,
           emergency_stop |-> FALSE, elapsed_time |-> 0]

\* the motion planner before its first call
InitMotion ==
  /\ pid_state_map = EmptyMap
  /\ teleportation_instance = EmptyMap
  /\ output_array = [i \in Indices |-> NoCommand]
  /\ clock = 0
  /\ pending_plan = Indices
  /\ plan = NoPlan
  /\ advances = [i \in Indices |-> << >>]

Init ==
  /\ scene \in Scenes
  /\ InitCollision
  /\ InitGeometry
  /\ situation = Cruise
  /\ InitMotion

\* a variant that leaves the ego a lock only for a committed hazard
CallLockingOnCommit(index) ==
  The({[result EXCEPT !.collision_locks =
          IF result.thrown \/ result.output_element.hazard THEN @
          ELSE Erase(@, vehicle_id_list[index])] :
       result \in
         {The({CollisionAvoidance(index, vehicle_id_list, snapshot.state_map,
                                  snapshot.attribute_map, snapshot.tl_state_map,
                                  snapshot.buffer_map, snapshot.track_traffic,
                                  snapshot.parameters, collision_locks,
                                  collision_frame[index], snapshot.rand) :
               snapshot \in {Snapshot}})}})

\* the call CollisionAvoidance(index, ...) on the current snapshot
Call(index) ==
  The({CollisionAvoidance(index, vehicle_id_list, snapshot.state_map,
                          snapshot.attribute_map, snapshot.tl_state_map,
                          snapshot.buffer_map, snapshot.track_traffic,
                          snapshot.parameters, collision_locks,
                          collision_frame[index], snapshot.rand) :
       snapshot \in {Snapshot}})

Record(index, again, result) ==
  [index |-> index, again |-> again,
   first_locks_before |-> IF again THEN last.locks_before ELSE collision_locks,
   locks_before |-> collision_locks,
   locks_after |-> result.collision_locks,
   element_before |-> collision_frame[index],
   output_element |-> result.output_element,
   thrown |-> result.thrown, calls |-> result.calls]

\* the collision stage of a tick runs CollisionAvoidance once for every
\* position of vehicle_id_list, in any order
CollisionAvoidanceStep(index) ==
  /\ index \in pending
  /\ \E result \in {Call(index)} :
        /\ collision_locks' = result.collision_locks
        /\ collision_frame' = [collision_frame EXCEPT ![index] = result.output_element]
        /\ last' = Record(index, FALSE, result)
  /\ pending' = pending \ {index}
  /\ UNCHANGED << scene, phase_start_locks, geometry_vars, motion_vars >>

\* a second call for the ego processed last, on the same snapshot and draws
CollisionAvoidanceAgain ==
  /\ pending = {}
  /\ last.index \in Indices
  /\ ~last.again
  /\ \E result \in {Call(last.index)} :
        /\ collision_locks' = result.collision_locks
        /\ collision_frame' = [collision_frame EXCEPT ![last.index] = result.output_element]
        /\ last' = Record(last.index, TRUE, result)
  /\ UNCHANGED << scene, pending, phase_start_locks, geometry_vars, motion_vars >>

\* the next tick: a new snapshot and a fresh output array from the pipeline,
\* every ego to process again; the lock map is what lasts from tick to tick
NextTick ==
  /\ pending = {}
  /\ \E next \in Scenes : SameRun(scene, next) /\ scene' = next
  /\ pending' = Indices
  /\ phase_start_locks' = collision_locks
  /\ collision_frame' = [i \in Indices |-> EmptyElement]
  /\ last' = NoCall
  /\ UNCHANGED << collision_locks, geometry_vars, motion_vars >>

Next ==
  \/ \E index \in Indices : CollisionAvoidanceStep(index)
  \/ CollisionAvoidanceAgain
  \/ NextTick

Spec == Init /\ [][Next]_vars

\* the collision stage on snapshots that may lack an entry of actor 1
NextTickMissing ==
  /\ pending = {}
  /\ \E next \in Scenes \cup MissingScenes : SameRun(scene, next) /\ scene' = next
  /\ pending' = Indices
  /\ phase_start_locks' = collision_locks
  /\ collision_frame' = [i \in Indices |-> EmptyElement]
  /\ last' = NoCall
  /\ UNCHANGED << collision_locks, geometry_vars, motion_vars >>

InitMissing ==
  /\ scene \in RoadScenes \cup MissingScenes
  /\ InitCollision
  /\ InitGeometry
  /\ situation = Cruise
  /\ InitMotion

NextMissing ==
  \/ \E index \in Indices : CollisionAvoidanceStep(index)
  \/ CollisionAvoidanceAgain
  \/ NextTickMissing

SpecMissing == InitMissing /\ [][NextMissing]_vars

(***************************************************************************)
(* The geometry cache inside one call of CollisionAvoidance: the call for  *)
(* ego `reference` asks GetGeometryBetweenActors(reference, other) for one *)
(* candidate after the other, each candidate once, on the two maps that    *)
(* start empty (lines 112-113).                                            *)
(***************************************************************************)
Geometry(cache, boundaries, reference_vehicle_id, other_actor_id) ==
  The({GetGeometryBetweenActors(
         cache, boundaries, reference_vehicle_id, other_actor_id,
         snapshot.state_map, snapshot.attribute_map, snapshot.buffer_map,
         collision_locks,
         snapshot.parameters.distance_to_leading_vehicle[reference_vehicle_id],
         snapshot.parameters.distance_to_leading_vehicle[other_actor_id]) :
       snapshot \in {Snapshot}})

Asked == {key[2] : key \in DOMAIN geometry_cache}

BeginCall(ego) ==
  /\ reference = 0
  /\ reference' = ego
  /\ UNCHANGED << scene, ca_vars, geometry_cache, geodesic_boundary_map, answer, motion_vars >>

AskGeometry(other) ==
  /\ reference /= 0
  /\ other /= reference
  /\ \A key \in DOMAIN geometry_cache : key /= ActorIdKey(reference, other)
  /\ \E geometry \in {Geometry(geometry_cache, geodesic_boundary_map, reference, other)} :
        /\ geometry_cache' = geometry.geometry_cache
        /\ geodesic_boundary_map' = geometry.geodesic_boundary_map
        /\ answer' = [reference_vehicle_id |-> reference, other_actor_id |-> other,
                      comparison |-> geometry.comparison]
  /\ UNCHANGED << scene, ca_vars, reference, motion_vars >>

NextGeometry ==
  \/ \E ego \in {Ego(i) : i \in Indices} : BeginCall(ego)
  \/ \E other \in Actors : AskGeometry(other)

SpecGeometry == Init /\ [][NextGeometry]_vars

(***************************************************************************)
(* The motion planning stage: every tick MotionPlan runs once for every    *)
(* position of vehicle_id_list; between two ticks the clock advances and   *)
(* the traffic light of ego 1 may change.                                  *)
(***************************************************************************)
\* a variant that stores the new StateEntry of the ego under every key
PlanOnSharedState(index) ==
  The({[result EXCEPT !.pid_state_map =
          [k \in DOMAIN @ |-> @[vehicle_id_list[index]]]] :
       result \in
         {MotionPlan(index, vehicle_id_list, PlanStateMap(situation),
                     PlanAttributeMap(situation), PlanParameters(situation),
                     PlanBufferMap(situation), urban_longitudinal_parameters,
                     highway_longitudinal_parameters, urban_lateral_parameters,
                     highway_lateral_parameters, PlanCollisionFrame(situation),
                     PlanTlFrame(situation), pid_state_map, teleportation_instance,
                     output_array, clock)}})

Plan(index) ==
  MotionPlan(index, vehicle_id_list, PlanStateMap(situation), PlanAttributeMap(situation),
             PlanParameters(situation), PlanBufferMap(situation),
             urban_longitudinal_parameters, highway_longitudinal_parameters,
             urban_lateral_parameters, highway_lateral_parameters,
             PlanCollisionFrame(situation), PlanTlFrame(situation),
             pid_state_map, teleportation_instance, output_array, clock)

\* the command is a teleport of the ego to a pose other than its own
Advancing(command, kinematic_state) ==
  /\ command.command = "ApplyTransform"
  /\ << command.location, command.rotation >>
       /= << kinematic_state.location, kinematic_state.rotation >>

MotionPlanStep(index) ==
  /\ index \in pending_plan
  /\ \E result \in {Plan(index)} :
        /\ advances' =
             IF ~result.thrown
                /\ Advancing(result.output_array[index],
                             PlanStateMap(situation)[vehicle_id_list[index]])
             THEN [advances EXCEPT ![index] = Append(@, clock)]
             ELSE advances
        /\ pid_state_map' = result.pid_state_map
        /\ teleportation_instance' = result.teleportation_instance
        /\ output_array' = result.output_array
        /\ plan' = [index |-> index, thrown |-> result.thrown,
                    pid_before |-> pid_state_map,
                    instants_before |-> teleportation_instance,
                    output_before |-> output_array,
                    max_target_velocity |-> result.max_target_velocity,
                    dynamic_target_velocity |-> result.dynamic_target_velocity,
                    emergency_stop |-> result.emergency_stop,
                    elapsed_time |-> result.elapsed_time]
  /\ pending_plan' = pending_plan \ {index}
  /\ UNCHANGED << scene, ca_vars, geometry_vars, situation, clock >>

AdvanceClock ==
  /\ pending_plan = {}
  /\ \E dt \in TimeSteps : clock + dt <= MaxTime /\ clock' = clock + dt
  /\ \E tl_hazard \in BOOLEAN : situation' = [situation EXCEPT !.tl_hazard = tl_hazard]
  /\ pending_plan' = Indices
  /\ output_array' = [i \in Indices |-> NoCommand]
  /\ plan' = NoPlan
  /\ UNCHANGED << scene, ca_vars, geometry_vars, pid_state_map, teleportation_instance,
                  advances >>

InitMotionPlan ==
  /\ scene \in RoadScenes /\ scene.place2 = "ahead" /\ scene.place3 = "away" /\ scene.v1 = 1000
  /\ InitCollision
  /\ InitGeometry
  /\ situation \in Situations
  /\ InitMotion

NextMotionPlan ==
  \/ \E index \in Indices : MotionPlanStep(index)
  \/ AdvanceClock

SpecMotionPlan == InitMotionPlan /\ [][NextMotionPlan]_vars

(***************************************************************************)
(* Properties of the collision stage                                       *)
(***************************************************************************)
Called == last.index \in Indices /\ ~last.thrown

LastEgo == Ego(last.index)

\* the lock entry of an actor in a lock map, << >> when it has none
EntryOf(locks, actor_id) ==
  IF Contains(locks, actor_id) THEN << locks[actor_id] >> ELSE << >>

\* C1: an ego that holds a lock before its call of CollisionAvoidance and
\* gets hazard = false from the call holds no lock after it.
C1_LockCleanup ==
  (Called /\ Contains(last.locks_before, LastEgo) /\ ~last.output_element.hazard)
    => ~Contains(last.locks_after, LastEgo)

RECURSIVE PhaseInOrder(_, _, _)
PhaseInOrder(index, locks, frame) ==
  IF index > Len(vehicle_id_list) THEN [collision_locks |-> locks, collision_frame |-> frame]
  ELSE LET result == CollisionAvoidance(index, vehicle_id_list, state_map, attribute_map,
                                        tl_state_map, buffer_map, track_traffic,
                                        parameters, locks, frame[index], rand)
       IN PhaseInOrder(index + 1, result.collision_locks,
                       [frame EXCEPT ![index] = result.output_element])

PhaseDone == pending = {} /\ last.index \in Indices /\ ~last.again

\* C3: whatever the order in which the egos of a phase are processed, the
\* phase ends with the same collision frame and the same lock map.
C3_OrderUnobservable ==
  PhaseDone =>
    LET in_order == PhaseInOrder(1, phase_start_locks, [i \in Indices |-> EmptyElement])
    IN /\ collision_frame = in_order.collision_frame
       /\ collision_locks = in_order.collision_locks

WellFormedMargin(hazard, margin) ==
  IF hazard THEN margin >= 0 /\ margin < Infinity ELSE margin = Infinity

\* C6: every record CollisionAvoidance writes and every pair NegotiateCollision
\* returns has a finite margin >= 0 with hazard = true and an infinite margin
\* with hazard = false.
C6_HazardImpliesFiniteMargin ==
  /\ \A index \in Indices :
       WellFormedMargin(collision_frame[index].hazard,
                        collision_frame[index].available_distance_margin)
  /\ WellFormedMargin(last.output_element.hazard,
                      last.output_element.available_distance_margin)
  /\ \A k \in 1..Len(last.calls) :
       WellFormedMargin(last.calls[k].first, last.calls[k].second)

\* a hazard nearer than the lead distance: the clamp of the margin acts
C6_Witness ==
  /\ Called
  /\ last.output_element.hazard
  /\ last.output_element.available_distance_margin = 0
  /\ \E k \in 1..Len(last.calls) :
       /\ last.calls[k].committed
       /\ last.calls[k].comparison.reference_vehicle_to_other_geodesic
            < parameters.distance_to_leading_vehicle[LastEgo]

\* a call of NegotiateCollision that declared a hazard against the lead of
\* the ego's lock
SameLeadHazard(call) ==
  /\ call.first
  /\ Contains(call.locks_before, LastEgo)
  /\ call.locks_before[LastEgo].lead_vehicle_id = call.other

\* C8: a hazard against the actor that is already the lead of the ego's lock
\* sets distance_to_lead_vehicle to inter_bbox_distance when
\* other_to_ref_geodesic < 0.1 and to ref_to_other_geodesic otherwise, and
\* leaves lead_vehicle_id and initial_lock_distance as they were.
C8_LockUpdateSameLead ==
  \A k \in 1..Len(last.calls) :
    LET call == last.calls[k]
    IN SameLeadHazard(call) =>
         /\ Contains(call.locks_after, LastEgo)
         /\ call.locks_after[LastEgo] =
              CollisionLock(call.other,
                            call.locks_before[LastEgo].initial_lock_distance,
                            IF call.comparison.other_vehicle_to_reference_geodesic < 10
                            THEN call.comparison.inter_bbox_distance
                            ELSE call.comparison.reference_vehicle_to_other_geodesic)

\* the lock is updated from the geodesic distance, which differs from the
\* distance the lock was created with
C8_Witness ==
  \E k \in 1..Len(last.calls) :
    LET call == last.calls[k]
    IN /\ SameLeadHazard(call)
       /\ call.comparison.other_vehicle_to_reference_geodesic >= 10
       /\ call.comparison.reference_vehicle_to_other_geodesic
            /= call.locks_before[LastEgo].initial_lock_distance
       /\ call.comparison.inter_bbox_distance
            /= call.locks_before[LastEgo].initial_lock_distance

\* C9: an ego whose call of CollisionAvoidance outputs hazard = true holds a
\* lock after the call, and the lead of the lock is the output hazard_actor_id.
C9_HazardHasLockOnObstacle ==
  /\ (Called /\ last.output_element.hazard)
       => /\ Contains(last.locks_after, LastEgo)
          /\ last.locks_after[LastEgo].lead_vehicle_id
               = last.output_element.hazard_actor_id
  /\ \A index \in Indices \ pending :
       collision_frame[index].hazard
         => /\ Contains(collision_locks, Ego(index))
            /\ collision_locks[Ego(index)].lead_vehicle_id
                 = collision_frame[index].hazard_actor_id

\* the hazard is another actor than the lead of the lock the ego came with
C9_Witness ==
  /\ Called
  /\ last.output_element.hazard
  /\ Contains(last.locks_before, LastEgo)
  /\ last.locks_before[LastEgo].lead_vehicle_id /= last.output_element.hazard_actor_id

\* the premise of C10 for the ego of the last call
AtJunctionEntranceLight(actor_id) ==
  /\ ~buffer_map[actor_id][1].junction
  /\ buffer_map[actor_id][GetTargetWaypoint(buffer_map[actor_id],
                                            JUNCTION_LOOK_AHEAD).second].junction
  /\ tl_state_map[actor_id].at_traffic_light
  /\ tl_state_map[actor_id].tl_state /= "Green"

\* C10: for an ego before a junction whose look-ahead waypoint is in the
\* junction, at a traffic light that is not green, NegotiateCollision returns
\* hazard = false for every other actor and CollisionAvoidance outputs
\* hazard = false.
C10_TrafficLightSuppression ==
  (Called /\ AtJunctionEntranceLight(LastEgo))
    => /\ \A k \in 1..Len(last.calls) : ~last.calls[k].first
       /\ ~last.output_element.hazard

\* the light is yellow and an actor whose geometry would be a hazard is judged
C10_Witness ==
  /\ Called
  /\ AtJunctionEntranceLight(LastEgo)
  /\ tl_state_map[LastEgo].tl_state = "Yellow"
  /\ \E k \in 1..Len(last.calls) :
       LET other_actor_id == last.calls[k].other
           geometry == GetGeometryBetweenActors(
                         EmptyMap, EmptyMap, LastEgo, other_actor_id, state_map,
                         attribute_map, buffer_map, last.calls[k].locks_before,
                         parameters.distance_to_leading_vehicle[LastEgo],
                         parameters.distance_to_leading_vehicle[other_actor_id])
       IN HazardRule(geometry.comparison,
                     EgoAngularPriority(state_map[LastEgo], state_map[other_actor_id]))

(***************************************************************************)
(* Properties of the geometry cache                                        *)
(***************************************************************************)
Swapped(comparison) ==
  GeometryComparison(comparison.other_vehicle_to_reference_geodesic,
                     comparison.reference_vehicle_to_other_geodesic,
                     comparison.inter_geodesic_distance,
                     comparison.inter_bbox_distance)

\* C4: on every cache the queries of a call can have built, the answer for
\* (a, b) is the answer for (b, a) with its first two distances exchanged.
C4_SymmetricCache ==
  \A a \in Actors, b \in Actors :
    a /= b =>
      Geometry(geometry_cache, geodesic_boundary_map, a, b).comparison
        = Swapped(Geometry(geometry_cache, geodesic_boundary_map, b, a).comparison)

(***************************************************************************)
(* Properties of the motion planner                                        *)
(***************************************************************************)
Planned == plan.index \in Indices /\ ~plan.thrown

PlannedEgo == Ego(plan.index)

PlannedState == PlanStateMap(situation)[PlannedEgo]

\* C5: for an ego with physics, a traffic-light hazard or a collision margin
\* below CRITICAL_BRAKING_MARGIN gives a command with brake = 1 and
\* throttle = 0 and a persisted StateEntry whose two integrals are zero.
C5_EmergencyBrakingDominance ==
  (/\ Planned
   /\ PlannedState.physics_enabled
   /\ \/ PlanTlFrame(situation)[plan.index]
      \/ PlanCollisionFrame(situation)[plan.index].available_distance_margin
           < CRITICAL_BRAKING_MARGIN)
    => /\ output_array[plan.index].command = "ApplyVehicleControl"
       /\ output_array[plan.index].brake = 1000
       /\ output_array[plan.index].throttle = 0
       /\ pid_state_map[PlannedEgo].deviation_integral = 0
       /\ pid_state_map[PlannedEgo].velocity_integral = 0

\* the light stops an ego whose controller had gathered integrals
C5_Witness ==
  /\ Planned
  /\ PlannedState.physics_enabled
  /\ PlanTlFrame(situation)[plan.index]
  /\ Contains(plan.pid_before, PlannedEgo)
  /\ plan.pid_before[PlannedEgo].velocity_integral /= 0
  /\ plan.pid_before[PlannedEgo].deviation_integral /= 0
  /\ output_array[plan.index].brake = 1000

\* C7: the target velocity MotionPlan hands to the PID update or to the
\* teleport displacement is at most max_target_velocity.
C7_SpeedClamp ==
  Planned =>
    /\ plan.dynamic_target_velocity <= plan.max_target_velocity
    /\ PlannedState.physics_enabled =>
         Length(PlannedState.velocity) - pid_state_map[PlannedEgo].velocity
           <= plan.max_target_velocity

\* the following law asks for more than max_target_velocity
C7_Witness ==
  /\ Planned
  /\ PlanCollisionFrame(situation)[plan.index].hazard
  /\ CollisionHandling(PlanCollisionFrame(situation)[plan.index],
                       PlannedState.velocity, PlannedState.rotation,
                       PlanStateMap(situation)[2].velocity,
                       plan.max_target_velocity).dynamic_target_velocity
       > plan.max_target_velocity
  /\ plan.dynamic_target_velocity = plan.max_target_velocity

(***************************************************************************)
(* Properties of the ignore policy                                         *)
(***************************************************************************)
\* C11: the output record of a call names a hazard actor only when
\* NegotiateCollision returned a hazard against that actor in the same call,
\* and the output margin is the margin that call returned.
C11_IgnoreNeverSynthesizes ==
  (Called /\ last.output_element.hazard)
    => \E k \in DOMAIN last.calls :
          /\ last.calls[k].other = last.output_element.hazard_actor_id
          /\ last.calls[k].first
          /\ last.calls[k].second = last.output_element.available_distance_margin

\* a hazard committed after an earlier candidate was judged and found clear
C11_Witness ==
  /\ Called
  /\ last.output_element.hazard
  /\ Len(last.calls) >= 2
  /\ ~last.calls[1].first
  /\ last.calls[Len(last.calls)].other = last.output_element.hazard_actor_id
  /\ last.calls[Len(last.calls)].second < Infinity

\* C12: with percentage_ignore_walkers = 100 for the ego no call commits a
\* pedestrian as the hazard actor, whatever the draw.
C12_IgnoreWalkersAlwaysSuppresses ==
  (Called /\ parameters.percentage_ignore_walkers[LastEgo] = 100)
    => ~(/\ last.output_element.hazard
         /\ attribute_map[last.output_element.hazard_actor_id].actor_type = "Pedestrian")

(***************************************************************************)
(* Properties of the failure paths of the collision stage                  *)
(***************************************************************************)
\* the maps of the snapshot that lack the ego of the last call
LastEgoMissing ==
  \/ ~Contains(state_map, LastEgo)
  \/ ~Contains(attribute_map, LastEgo)
  \/ ~Contains(tl_state_map, LastEgo)
  \/ ~Contains(buffer_map, LastEgo)

\* C13: a call for an ego that one of the state, attribute, traffic-light
\* and buffer maps lacks ends without an error, leaves the lock map as it
\* was and writes hazard = false with an infinite margin.
C13_MissingEgoSkippedSilently ==
  (last.index \in Indices /\ LastEgoMissing)
    => /\ ~last.thrown
       /\ last.locks_after = last.locks_before
       /\ last.output_element = EmptyElement

(***************************************************************************)
(* Properties of the accesses to the collision lock map                    *)
(***************************************************************************)
\* a lock map cut down to the entries of the given actors
OnlyEntriesOf(locks, actors) == [k \in DOMAIN locks \cap actors |-> locks[k]]

\* the last call again, on a lock map that holds the ego's entry alone
LastCallOnOwnEntry ==
  CollisionAvoidance(last.index, vehicle_id_list, state_map, attribute_map,
                     tl_state_map, buffer_map, track_traffic, parameters,
                     OnlyEntriesOf(last.locks_before, {LastEgo}),
                     last.element_before, rand)

\* C14: the call for ego E accesses no lock entry but the entry of E: it
\* leaves the entries of the other actors as they were, and what it returns
\* and leaves in the entry of E is what it would on a lock map holding the
\* entry of E alone.
C14_OnlyOwnLockEntryAccessed ==
  Called
    => /\ \A other \in Actors \ {LastEgo} :
             EntryOf(last.locks_after, other) = EntryOf(last.locks_before, other)
       /\ LastCallOnOwnEntry.output_element = last.output_element
       /\ EntryOf(LastCallOnOwnEntry.collision_locks, LastEgo)
            = EntryOf(last.locks_after, LastEgo)

(***************************************************************************)
(* Properties of the geometry cache as a memo                              *)
(***************************************************************************)
\* C15: on every cache the queries of a call can leave, a query for an
\* ordered pair of actors returns the comparison a computation without the
\* cache returns for that pair: a repeated query, and a query for another
\* pair, never get the entry of a different query.
C15_CacheTransparency ==
  \A a, b \in Actors :
    a /= b =>
      Geometry(geometry_cache, geodesic_boundary_map, a, b).comparison
        = Geometry(EmptyMap, geodesic_boundary_map, a, b).comparison

(***************************************************************************)
(* Properties of the teleport path of the motion planner                   *)
(***************************************************************************)
\* C16: in asynchronous mode two teleports of an ego to another pose are at
\* least HYBRID_MODE_DT apart.
C16_HybridCadence ==
  ~situation.sync
    => \A index \in Indices :
         \A k \in 1..(Len(advances[index]) - 1) :
            advances[index][k + 1] - advances[index][k] >= HYBRID_MODE_DT

\* C17: for an ego without physics an emergency stop gives an ApplyTransform
\* to the ego's own location and rotation, in either mode.
C17_EmergencyStopFreezesTeleport ==
  (Planned /\ ~PlannedState.physics_enabled /\ plan.emergency_stop)
    => output_array[plan.index]
         = ApplyTransform(PlannedEgo, PlannedState.location, PlannedState.rotation)

\* an emergency stop in synchronous mode, and one in asynchronous mode after
\* more than HYBRID_MODE_DT
C17_Witness ==
  /\ Planned
  /\ ~PlannedState.physics_enabled
  /\ plan.emergency_stop
  /\ situation.sync \/ plan.elapsed_time > HYBRID_MODE_DT
  /\ output_array[plan.index].command = "ApplyTransform"

(***************************************************************************)
(* Properties of the controller state store                                *)
(***************************************************************************)
\* C18: after a call of MotionPlan that did not fail the PID state map holds
\* a StateEntry of the ego; after a call on the teleport path that entry has
\* deviation, velocity and the two integrals zero and the ego has a teleport
\* instant; the entries of the other egos are as before the call.
C18_StateStoreLifecycle ==
  Planned =>
    /\ Contains(pid_state_map, PlannedEgo)
    /\ ~PlannedState.physics_enabled =>
         /\ pid_state_map[PlannedEgo].deviation = 0
         /\ pid_state_map[PlannedEgo].velocity = 0
         /\ pid_state_map[PlannedEgo].deviation_integral = 0
         /\ pid_state_map[PlannedEgo].velocity_integral = 0
         /\ Contains(teleportation_instance, PlannedEgo)
    /\ \A other \in Actors \ {PlannedEgo} :
         /\ EntryOf(pid_state_map, other) = EntryOf(plan.pid_before, other)
         /\ EntryOf(teleportation_instance, other)
              = EntryOf(plan.instants_before, other)

\* a first call on the teleport path, made when another ego has an entry
\* that differs from the one the call stores
C18_Witness ==
  /\ Planned
  /\ ~PlannedState.physics_enabled
  /\ ~Contains(plan.pid_before, PlannedEgo)
  /\ ~Contains(plan.instants_before, PlannedEgo)
  /\ Contains(teleportation_instance, PlannedEgo)
  /\ \E other \in DOMAIN plan.pid_before :
        /\ other /= PlannedEgo
        /\ pid_state_map[other] /= pid_state_map[PlannedEgo]

(***************************************************************************)
(* Properties of the hazard rule                                           *)
(***************************************************************************)
\* the hazard rule as the specification words it, on the four distances of
\* a comparison (0.1 m = 10 cm)
RuleOfSpecification(comparison, ego_angular_priority) ==
  LET corridors_touching == comparison.inter_geodesic_distance < 10
      bodies_touching == comparison.inter_bbox_distance < 10
      ego_path_clear == comparison.other_vehicle_to_reference_geodesic > 10
      other_path_clear == comparison.reference_vehicle_to_other_geodesic > 10
      ego_path_priority == comparison.reference_vehicle_to_other_geodesic
                           < comparison.other_vehicle_to_reference_geodesic
      yields == ~ego_angular_priority /\ ~ego_path_priority
  IN corridors_touching
     /\ (\/ (~bodies_touching
             /\ (~ego_path_clear \/ (ego_path_clear /\ other_path_clear /\ yields)))
         \/ (bodies_touching /\ yields))

\* C19: a call of NegotiateCollision that passes the gate returns a hazard
\* exactly when the hazard rule holds of the comparison it made.
C19_HazardRule ==
  Called =>
    \A k \in DOMAIN last.calls :
      last.calls[k].gate =>
        last.calls[k].first
          = RuleOfSpecification(last.calls[k].comparison,
                                EgoAngularPriority(state_map[LastEgo],
                                                   state_map[last.calls[k].other]))

\* the two paths touch, each is clear of the other body, and the priorities
\* decide against a hazard
C19_Witness ==
  /\ Called
  /\ \E k \in DOMAIN last.calls :
        /\ last.calls[k].gate
        /\ last.calls[k].comparison.inter_geodesic_distance < 10
        /\ last.calls[k].comparison.inter_bbox_distance >= 10
        /\ last.calls[k].comparison.other_vehicle_to_reference_geodesic > 10
        /\ last.calls[k].comparison.reference_vehicle_to_other_geodesic > 10
        /\ ~last.calls[k].first

\* the angular priority as the specification words it, with the heading of
\* the other actor; the two unit vectors have one length, so the order of
\* the dot products is that of the vectors before the division
AngularPriorityOfSpecification(reference_vehicle_state, other_vehicle_state) ==
  Dot(reference_vehicle_state.rotation,
      VSub(other_vehicle_state.location, reference_vehicle_state.location))
    < Dot(other_vehicle_state.rotation,
          VSub(reference_vehicle_state.location, other_vehicle_state.location))

\* C20: the angular priority the hazard rule of a call uses is the one the
\* headings of the reference vehicle and of the other actor give.
C20_AngularPriority ==
  Called =>
    \A k \in DOMAIN last.calls :
      last.calls[k].gate =>
        EgoAngularPriority(state_map[LastEgo], state_map[last.calls[k].other])
          = AngularPriorityOfSpecification(state_map[LastEgo],
                                           state_map[last.calls[k].other])

(***************************************************************************)
(* Properties of the calls of NegotiateCollision                           *)
(***************************************************************************)
\* the gate as the specification words it, for the reference vehicle of the
\* last call of CollisionAvoidance, another actor and a lock map
GateOfSpecification(ref, other, locks) ==
  LET d2 == DistanceSquared(state_map[ref].location, state_map[other].location)
      ext_ref == GetBoundingBoxExtention(ref, state_map[ref], locks)
      ext_other == GetBoundingBoxExtention(other, state_map[other], locks)
      L == (attribute_map[ref].half_length * SQUARE_ROOT_OF_TWO) \div 1000
           + (attribute_map[other].half_length * SQUARE_ROOT_OF_TWO) \div 1000
      ego_range == SQUARE(ext_ref + L)
      cross_range == SQUARE(ext_ref + L + ext_other)
      other_in_front ==
        Dot(state_map[ref].rotation,
            VSub(state_map[other].location, state_map[ref].location)) > 0
      buffer == buffer_map[ref]
      lookahead == GetTargetWaypoint(buffer, JUNCTION_LOOK_AHEAD).second
      ego_inside_junction == buffer[1].junction
      ego_at_junction_entrance == ~buffer[1].junction /\ buffer[lookahead].junction
      at_traffic_light == tl_state_map[ref].at_traffic_light
      ego_stopped_by_light == tl_state_map[ref].tl_state /= "Green"
  IN /\ ~(ego_at_junction_entrance /\ at_traffic_light /\ ego_stopped_by_light)
     /\ \/ (ego_inside_junction /\ d2 < cross_range)
        \/ (~ego_inside_junction /\ other_in_front /\ d2 < ego_range)

\* C21: a call of NegotiateCollision compares the geometry exactly when the
\* gate of the specification holds; when it does not hold the call returns
\* hazard = false with an infinite margin and leaves the geometry cache and
\* the geodesic map as they were.
C21_Gating ==
  Called =>
    \A k \in DOMAIN last.calls :
      LET call == last.calls[k]
      IN /\ call.gate = GateOfSpecification(LastEgo, call.other, call.locks_before)
         /\ call.gate => call.cache_after /= call.cache_before
         /\ ~call.gate =>
              /\ ~call.first
              /\ call.second = Infinity
              /\ call.cache_after = call.cache_before
              /\ call.boundaries_after = call.boundaries_before

\* inside a junction the geometry is compared with an actor that is not in
\* front of the ego
C21_Witness ==
  /\ Called
  /\ buffer_map[LastEgo][1].junction
  /\ \E k \in DOMAIN last.calls :
        /\ last.calls[k].gate
        /\ ~OtherVehicleInFront(state_map[LastEgo], state_map[last.calls[k].other])
        /\ last.calls[k].cache_after /= last.calls[k].cache_before

\* C22: after a call of NegotiateCollision that returns hazard = false the
\* reference vehicle has no lock entry, and the entries of all other actors
\* are as before the call.
C22_NoHazardFlushesOwnLock ==
  Called =>
    \A k \in DOMAIN last.calls :
      LET call == last.calls[k]
      IN ~call.first =>
           /\ ~Contains(call.locks_after, LastEgo)
           /\ \A other \in Actors \ {LastEgo} :
                EntryOf(call.locks_after, other) = EntryOf(call.locks_before, other)

\* a call behind the gate finds no hazard while the reference vehicle and
\* another vehicle hold a lock
C22_Witness ==
  /\ Called
  /\ \E k \in DOMAIN last.calls :
        /\ ~last.calls[k].first
        /\ last.calls[k].gate
        /\ Contains(last.calls[k].locks_before, LastEgo)
        /\ \E other \in DOMAIN last.calls[k].locks_before : other /= LastEgo
        /\ ~Contains(last.calls[k].locks_after, LastEgo)

\* a hazard against an actor that is not the lead of a lock of the reference
\* vehicle
NewLeadHazard(call) ==
  /\ call.first
  /\ \/ ~Contains(call.locks_before, LastEgo)
     \/ call.locks_before[LastEgo].lead_vehicle_id /= call.other

\* C23: a call of NegotiateCollision that declares a hazard against an actor
\* while the reference vehicle has no lock, or a lock with another lead,
\* leaves the reference vehicle with the lock {other, inter_bbox_distance,
\* inter_bbox_distance} of the comparison of this call.
C23_LockCreationAndLeadSwitch ==
  Called =>
    \A k \in DOMAIN last.calls :
      LET call == last.calls[k]
      IN NewLeadHazard(call) =>
           /\ Contains(call.locks_after, LastEgo)
           /\ call.locks_after[LastEgo] =
                CollisionLock(call.other, call.comparison.inter_bbox_distance,
                              call.comparison.inter_bbox_distance)

\* the lead of an existing lock is replaced, and both distances of the lock
\* change with it
C23_Witness ==
  /\ Called
  /\ \E k \in DOMAIN last.calls :
        /\ NewLeadHazard(last.calls[k])
        /\ Contains(last.calls[k].locks_before, LastEgo)
        /\ last.calls[k].locks_before[LastEgo].initial_lock_distance
             /= last.calls[k].comparison.inter_bbox_distance
        /\ last.calls[k].locks_before[LastEgo].distance_to_lead_vehicle
             /= last.calls[k].comparison.inter_bbox_distance
        /\ last.calls[k].locks_after[LastEgo].lead_vehicle_id = last.calls[k].other

(***************************************************************************)
(* Properties of the loop over the candidates                              *)
(***************************************************************************)
\* the candidates of the ego of the last call
LastCandidates ==
  CollisionCandidates(LastEgo, state_map[LastEgo].location, track_traffic[LastEgo],
                      state_map)

\* the enable checks of the loop for a candidate
EnabledFor(other) ==
  /\ parameters.collision_detection[LastEgo][other]
  /\ Contains(tl_state_map, LastEgo)
  /\ Contains(buffer_map, LastEgo)
  /\ Contains(buffer_map, other)

DistanceFromEgo(other) ==
  DistanceSquared(state_map[LastEgo].location, state_map[other].location)

Negotiated == {last.calls[k].other : k \in DOMAIN last.calls}

\* the candidate is judged a hazard and the draw does not ignore it
NotIgnored(call) ==
  /\ call.first
  /\ IF attribute_map[call.other].actor_type = "Vehicle"
     THEN parameters.percentage_ignore_vehicles[LastEgo] <= rand[call.other]
     ELSE parameters.percentage_ignore_walkers[LastEgo] <= rand[call.other]

\* C24: the calls of NegotiateCollision of one call of CollisionAvoidance are
\* made in ascending distance from the ego, for candidates that pass the
\* enable checks; a call is committed exactly when it finds a hazard the draw
\* does not ignore, and it is then the last call; the output and the lock map
\* are those of the last call; every enabled candidate nearer than the
\* committed one (every enabled candidate, without a commit) was negotiated.
C24_NearestFirstCommit ==
  Called =>
    LET calls == last.calls
        n == Len(calls)
        committed == n > 0 /\ calls[n].committed
    IN /\ \A k \in 1..n :
            /\ calls[k].other \in LastCandidates
            /\ EnabledFor(calls[k].other)
            /\ calls[k].committed = NotIgnored(calls[k])
            /\ calls[k].committed => k = n
            /\ k < n => /\ DistanceFromEgo(calls[k].other)
                             <= DistanceFromEgo(calls[k + 1].other)
                        /\ calls[k + 1].locks_before = calls[k].locks_after
            /\ \A j \in 1..n : calls[j].other = calls[k].other => j = k
       /\ last.output_element.hazard = committed
       /\ committed =>
            /\ last.output_element.hazard_actor_id = calls[n].other
            /\ last.output_element.available_distance_margin = calls[n].second
       /\ n > 0 => last.locks_after = calls[n].locks_after
       /\ n = 0 => last.locks_after = last.locks_before
       /\ \A other \in LastCandidates :
            (/\ EnabledFor(other)
             /\ committed => DistanceFromEgo(other) < DistanceFromEgo(calls[n].other))
              => other \in Negotiated

\* a hazard is committed and a farther candidate, which the same call would
\* judge a hazard on the maps the commit left, is not negotiated
C24_Witness ==
  /\ Called
  /\ last.output_element.hazard
  /\ \E other \in LastCandidates \ Negotiated :
        /\ EnabledFor(other)
        /\ DistanceFromEgo(other)
             > DistanceFromEgo(last.output_element.hazard_actor_id)
        /\ NegotiateCollision(
             LastEgo, other, last.calls[Len(last.calls)].cache_after,
             last.calls[Len(last.calls)].boundaries_after, last.locks_after,
             state_map, attribute_map, tl_state_map[LastEgo], buffer_map,
             GetTargetWaypoint(buffer_map[LastEgo], JUNCTION_LOOK_AHEAD).second,
             parameters.distance_to_leading_vehicle[LastEgo],
             parameters.distance_to_leading_vehicle[other]).first

(***************************************************************************)
(* Properties of the boundary builder                                      *)
(***************************************************************************)
\* the extension as the specification words it (BOUNDARY_EXTENSION_RATE is a
\* numerator over 100)
ExtensionOfSpecification(actor_id, locks) ==
  LET v_forward == Dot(state_map[actor_id].velocity, state_map[actor_id].rotation)
      ext == (BOUNDARY_EXTENSION_RATE * v_forward) \div 100 + BOUNDARY_EXTENSION_MINIMUM
  IN IF ~Contains(locks, actor_id) THEN ext
     ELSE IF (locks[actor_id].distance_to_lead_vehicle + LOCKING_DISTANCE_PADDING)
               - locks[actor_id].initial_lock_distance >= MAX_LOCKING_EXTENSION
          THEN ext
          ELSE locks[actor_id].distance_to_lead_vehicle + LOCKING_DISTANCE_PADDING

\* C25: on every lock map of a run, GetBoundingBoxExtention gives for every
\* actor the linear extension when the actor has no lock or the lock has
\* stretched by MAX_LOCKING_EXTENSION or more, and distance_to_lead_vehicle +
\* LOCKING_DISTANCE_PADDING otherwise.  (The function returns a number and
\* takes the lock map as a const reference: it has no way to change the map.)
C25_SpeedDependentExtension ==
  \A actor_id \in DOMAIN state_map :
    GetBoundingBoxExtention(actor_id, state_map[actor_id], collision_locks)
      = ExtensionOfSpecification(actor_id, collision_locks)

\* a lock that has stretched by MAX_LOCKING_EXTENSION or more: the linear
\* extension is taken, and it differs from the length of the lock
C25_Witness ==
  \E actor_id \in DOMAIN collision_locks :
    /\ (collision_locks[actor_id].distance_to_lead_vehicle + LOCKING_DISTANCE_PADDING)
         - collision_locks[actor_id].initial_lock_distance >= MAX_LOCKING_EXTENSION
    /\ GetBoundingBoxExtention(actor_id, state_map[actor_id], collision_locks)
         /= collision_locks[actor_id].distance_to_lead_vehicle + LOCKING_DISTANCE_PADDING

\* line 287-288: the extension GetGeodesicBoundary walks to
WalkExtension(actor_id) ==
  MAX(parameters.distance_to_leading_vehicle[actor_id],
      GetBoundingBoxExtention(actor_id, state_map[actor_id], collision_locks))

\* the walk GetGeodesicBoundary makes for a vehicle of the snapshot on the
\* current lock map
WalkOf(actor_id) ==
  The({BoundaryWalk(buffer_map[actor_id], start, SQUARE(WalkExtension(actor_id)),
                    start, start, 0, << >>, << >>) :
       start \in {GetTargetWaypoint(buffer_map[actor_id],
                                    attribute_map[actor_id].half_length).second}})

\* the entry the walk of the specification ends at: the first entry from
\* `from` on that is farther from the start than the extension, or the last
\* entry of the buffer
RECURSIVE TerminatingEntry(_, _, _, _)
TerminatingEntry(waypoint_buffer, start, extension, from) ==
  IF \/ from >= Len(waypoint_buffer)
     \/ DistanceSquared(waypoint_buffer[start].location, waypoint_buffer[from].location)
          > SQUARE(extension)
  THEN from
  ELSE TerminatingEntry(waypoint_buffer, start, extension, from + 1)

\* C26: the walk of every vehicle examines the buffer entries start,
\* start + 1, ... once each up to the terminating entry, emits its last rib
\* at the terminating entry, and emits no two ribs at one entry.
C26_CorridorRibWalk ==
  \A actor_id \in DOMAIN buffer_map :
    attribute_map[actor_id].actor_type = "Vehicle" =>
      LET waypoint_buffer == buffer_map[actor_id]
          start == GetTargetWaypoint(waypoint_buffer,
                                     attribute_map[actor_id].half_length).second
          terminating == TerminatingEntry(waypoint_buffer, start,
                                          WalkExtension(actor_id), start)
          walk == WalkOf(actor_id)
      IN /\ walk.examined = [k \in 1..(terminating - start + 1) |-> start + k - 1]
         /\ walk.ribs[Len(walk.ribs)] = terminating
         /\ \A j, k \in DOMAIN walk.ribs : walk.ribs[j] = walk.ribs[k] => j = k

(***************************************************************************)
(* Properties of the following law of the motion planner                   *)
(***************************************************************************)
\* the record of the planned ego in the collision frame
PlannedHazard == PlanCollisionFrame(situation)[plan.index]

\* the velocity of the hazard actor of that record
PlannedOtherVelocity == PlanStateMap(situation)[PlannedHazard.hazard_actor_id].velocity

\* rel_speed = |ego.velocity - other.velocity|
PlannedRelativeSpeed == Length(VSub(PlannedState.velocity, PlannedOtherVelocity))

\* C27: with a hazard and rel_speed > EPSILON_RELATIVE_SPEED the target is
\* min(max_target_v, other_v_along_heading + RELATIVE_APPROACH_SPEED) at a
\* margin above the follow distance, min(max_target_v, max(other_v_along_heading,
\* RELATIVE_APPROACH_SPEED)) at a margin above CRITICAL_BRAKING_MARGIN, and
\* the call stops the ego at a margin of CRITICAL_BRAKING_MARGIN or less;
\* without a hazard and without a traffic-light hazard the target is
\* max_target_v and the call does not stop the ego.
C27_FollowingLaw ==
  Planned =>
    IF PlannedHazard.hazard
    THEN LET margin == PlannedHazard.available_distance_margin
             other_v_along_heading == Dot(PlannedOtherVelocity, PlannedState.rotation)
             follow == (PlannedRelativeSpeed * FOLLOW_DISTANCE_RATE) \div 100
                       + MIN_FOLLOW_LEAD_DISTANCE
         IN PlannedRelativeSpeed > EPSILON_RELATIVE_SPEED =>
              IF margin > follow
              THEN plan.dynamic_target_velocity
                     = MIN(plan.max_target_velocity,
                           other_v_along_heading + RELATIVE_APPROACH_SPEED)
              ELSE IF margin > CRITICAL_BRAKING_MARGIN
                   THEN plan.dynamic_target_velocity
                          = MIN(plan.max_target_velocity,
                                MAX(other_v_along_heading, RELATIVE_APPROACH_SPEED))
                   ELSE plan.emergency_stop
    ELSE ~PlanTlFrame(situation)[plan.index] =>
           /\ plan.dynamic_target_velocity = plan.max_target_velocity
           /\ ~plan.emergency_stop

\* a margin equal to CRITICAL_BRAKING_MARGIN stops the ego, without a hazard
\* of the traffic light
C27_Witness ==
  /\ Planned
  /\ PlannedHazard.hazard
  /\ PlannedRelativeSpeed > EPSILON_RELATIVE_SPEED
  /\ PlannedHazard.available_distance_margin = CRITICAL_BRAKING_MARGIN
  /\ ~PlanTlFrame(situation)[plan.index]
  /\ plan.emergency_stop

\* the distance between the planned ego and the hazard actor decreases: the
\* derivative of its square, 2 (other.loc - ego.loc) . (other.v - ego.v), is
\* negative
ClosingTheGap ==
  Dot(VSub(PlanStateMap(situation)[PlannedHazard.hazard_actor_id].location,
           PlannedState.location),
      VSub(PlannedOtherVelocity, PlannedState.velocity)) < 0

\* C28: for an ego that is not closing the gap to its hazard actor the target
\* velocity is max_target_v, and the call stops the ego only for a hazard of
\* the traffic light or a margin below CRITICAL_BRAKING_MARGIN.
C28_FollowingLawOnlyWhenClosing ==
  (Planned /\ PlannedHazard.hazard /\ ~ClosingTheGap)
    => /\ plan.dynamic_target_velocity = plan.max_target_velocity
       /\ plan.emergency_stop
            => \/ PlanTlFrame(situation)[plan.index]
               \/ PlannedHazard.available_distance_margin < CRITICAL_BRAKING_MARGIN

\* C29: a call of MotionPlan that fails on a missing entry leaves the PID
\* state map, the teleport instant map and the control frame as they were.
C29_FailurePathsSideEffectFree ==
  (plan.index \in Indices /\ plan.thrown)
    => /\ pid_state_map = plan.pid_before
       /\ teleportation_instance = plan.instants_before
       /\ output_array = plan.output_before

(***************************************************************************)
(* Properties of the two maps of a call of CollisionAvoidance              *)
(***************************************************************************)
\* the boundary a computation on the given lock map gives for an actor
FreshBoundary(actor_id, locks) ==
  ComputeGeodesicBoundary(actor_id, state_map[actor_id], attribute_map[actor_id],
                          buffer_map[actor_id],
                          parameters.distance_to_leading_vehicle[actor_id], locks)

\* C30: in a call of CollisionAvoidance the first call of NegotiateCollision
\* finds the geometry cache and the geodesic map empty, whatever earlier
\* calls computed; each call of NegotiateCollision continues on the maps the
\* one before left; a boundary once stored stays as it is, and a request for
\* its actor returns it, also when the lock of the ego has changed since.
C30_PerTickMemoization ==
  Called =>
    LET calls == last.calls
    IN /\ calls /= << >> =>
            /\ calls[1].cache_before = EmptyMap
            /\ calls[1].boundaries_before = EmptyMap
       /\ \A k \in DOMAIN calls :
            /\ k < Len(calls) =>
                 /\ calls[k + 1].cache_before = calls[k].cache_after
                 /\ calls[k + 1].boundaries_before = calls[k].boundaries_after
            /\ \A actor_id \in DOMAIN calls[k].boundaries_before :
                 /\ Contains(calls[k].boundaries_after, actor_id)
                 /\ calls[k].boundaries_after[actor_id]
                      = calls[k].boundaries_before[actor_id]
                 /\ GetGeodesicBoundary(
                      actor_id, calls[k].boundaries_before, state_map[actor_id],
                      attribute_map[actor_id], buffer_map[actor_id],
                      parameters.distance_to_leading_vehicle[actor_id],
                      calls[k].locks_before).boundary
                      = calls[k].boundaries_before[actor_id]

\* a later candidate is compared with the stored boundary of the ego after
\* an earlier candidate changed the lock of the ego: the stored boundary
\* differs from the one the lock map of that moment gives
C30_Witness ==
  /\ Called
  /\ \E k \in DOMAIN last.calls :
        /\ k > 1
        /\ last.calls[k].gate
        /\ EntryOf(last.calls[k].locks_before, LastEgo)
             /= EntryOf(last.calls[1].locks_before, LastEgo)
        /\ Contains(last.calls[k].boundaries_before, LastEgo)
        /\ last.calls[k].boundaries_before[LastEgo]
             /= FreshBoundary(LastEgo, last.calls[k].locks_before)

(***************************************************************************)
(* Properties of the lock an ego leaves a call of CollisionAvoidance with  *)
(***************************************************************************)
\* C31: after a call of CollisionAvoidance that negotiated a candidate, the
\* ego holds a lock exactly when the last call of NegotiateCollision returned
\* a hazard, and the lead of the lock is the candidate of that call, whether
\* the hazard was committed or ignored; a call that negotiated no candidate
\* leaves the lock map as it was.
C31_LastCandidateDecidesLock ==
  Called =>
    LET n == Len(last.calls)
    IN IF n = 0 THEN last.locks_after = last.locks_before
       ELSE /\ Contains(last.locks_after, LastEgo) = last.calls[n].first
            /\ last.calls[n].first =>
                 last.locks_after[LastEgo].lead_vehicle_id = last.calls[n].other

\* two candidates are judged hazards and ignored by the draw: the call
\* outputs no hazard and the ego holds a lock on the second one
C31_Witness ==
  /\ Called
  /\ Len(last.calls) >= 2
  /\ last.calls[1].first
  /\ last.calls[Len(last.calls)].first
  /\ ~last.calls[Len(last.calls)].committed
  /\ ~last.output_element.hazard
  /\ Contains(last.locks_after, LastEgo)
  /\ last.locks_after[LastEgo].lead_vehicle_id = last.calls[Len(last.calls)].other

(***************************************************************************)
(* Properties of the sign of the target velocity                           *)
(***************************************************************************)
\* line 195: the displacement of a teleport, in cm
TargetDisplacement == (plan.dynamic_target_velocity * HYBRID_MODE_DT) \div 1000

\* C32: the target velocity a call of MotionPlan resolves is not negative,
\* and neither is the teleport displacement of an ego without physics.
C32_TargetVelocityNotNegative ==
  Planned =>
    /\ plan.dynamic_target_velocity >= 0
    /\ ~PlannedState.physics_enabled => TargetDisplacement >= 0

====
